---- MODULE Spec2Model ----
(***************************************************************************)
(* whisper-lrc: input resolution (internal/input), the batch loop of       *)
(* cmd/root.go and the progress tracker (internal/progress).               *)
(*                                                                         *)
(* Go strings are modelled as sequences of one-character strings, so that  *)
(* prefixes, suffixes, extensions and replacements are computed the way    *)
(* the standard library computes them.                                     *)
(***************************************************************************)
EXTENDS Integers, Sequences, FiniteSets, TLC

\* ------------------------------------------------------------------ strings

\* strings.HasPrefix
HasPrefix(s, p) == Len(s) >= Len(p) /\ SubSeq(s, 1, Len(p)) = p

\* strings.HasSuffix
HasSuffix(s, p) == Len(s) >= Len(p) /\ SubSeq(s, Len(s) - Len(p) + 1, Len(s)) = p

\* strings.Contains
Contains(s, p) ==
    \E k \in 1..(Len(s) - Len(p) + 1) : SubSeq(s, k, k + Len(p) - 1) = p

\* strings.Index for a one-character needle: first position (1-based), 0 if absent
Index(s, c) ==
    IF \E k \in 1..Len(s) : s[k] = c
    THEN CHOOSE k \in 1..Len(s) : s[k] = c /\ \A j \in 1..(k - 1) : s[j] # c
    ELSE 0

\* position of the last occurrence of c in s, 0 if absent
LastIndex(s, c) ==
    IF \E k \in 1..Len(s) : s[k] = c
    THEN CHOOSE k \in 1..Len(s) : s[k] = c /\ \A j \in (k + 1)..Len(s) : s[j] # c
    ELSE 0

UpperCase == <<"A","B","C","D","E","F","G","H","I","J","K","L","M","N","O","P","Q","R","S","T","U","V","W","X","Y","Z">>
LowerCase == <<"a","b","c","d","e","f","g","h","i","j","k","l","m","n","o","p","q","r","s","t","u","v","w","x","y","z">>

LowerChar(c) ==
    LET up == {k \in 1..Len(UpperCase) : UpperCase[k] = c}
    IN  IF up = {} THEN c ELSE LowerCase[CHOOSE k \in up : TRUE]

\* strings.ToLower
ToLower(s) == [k \in 1..Len(s) |-> LowerChar(s[k])]

\* strings.TrimSuffix
TrimSuffix(s, suf) ==
    IF HasSuffix(s, suf) THEN SubSeq(s, 1, Len(s) - Len(suf)) ELSE s

IsSpace(c) == c \in {" ", "\t", "\n", "\r"}

\* strings.TrimSpace
RECURSIVE TrimLeft(_)
TrimLeft(s) == IF s # <<>> /\ IsSpace(Head(s)) THEN TrimLeft(Tail(s)) ELSE s
RECURSIVE TrimRight(_)
TrimRight(s) ==
    IF s # <<>> /\ IsSpace(s[Len(s)]) THEN TrimRight(SubSeq(s, 1, Len(s) - 1)) ELSE s
TrimSpace(s) == TrimRight(TrimLeft(s))

\* strings.ReplaceAll for a one-character pattern and replacement
ReplaceAll(s, old, new) == [k \in 1..Len(s) |-> IF s[k] = old THEN new ELSE s[k]]

\* ------------------------------------------------------------ path/filepath
\* (Unix: the separator is "/", there is no volume name)

RECURSIVE StripTrailingSlashes(_)
StripTrailingSlashes(p) ==
    IF p # <<>> /\ p[Len(p)] = "/"
    THEN StripTrailingSlashes(SubSeq(p, 1, Len(p) - 1))
    ELSE p

\* filepath.Base
Base(path) ==
    IF path = <<>> THEN <<".">>
    ELSE LET p == StripTrailingSlashes(path)
             i == LastIndex(p, "/")
             b == SubSeq(p, i + 1, Len(p))
         IN  IF b = <<>> THEN <<"/">> ELSE b

\* filepath.Ext: from the last dot of the last path element, "" if none
Ext(path) ==
    LET i == LastIndex(path, "/")
        e == SubSeq(path, i + 1, Len(path))
        d == LastIndex(e, ".")
    IN  IF d = 0 THEN <<>> ELSE SubSeq(e, d, Len(e))

\* the "/"-separated elements of p
RECURSIVE Split(_)
Split(p) ==
    LET i == Index(p, "/")
    IN  IF i = 0 THEN <<p>>
        ELSE <<SubSeq(p, 1, i - 1)>> \o Split(SubSeq(p, i + 1, Len(p)))

RECURSIVE JoinElems(_)
JoinElems(es) ==
    IF es = <<>> THEN <<>>
    ELSE IF Len(es) = 1 THEN es[1]
    ELSE es[1] \o <<"/">> \o JoinElems(Tail(es))

\* the element stack filepath.Clean builds: "" and "." dropped, ".." resolved
RECURSIVE CleanElems(_, _, _)
CleanElems(es, stack, rooted) ==
    IF es = <<>> THEN stack
    ELSE LET e == Head(es)
         IN  IF e = <<>> \/ e = <<".">> THEN CleanElems(Tail(es), stack, rooted)
             ELSE IF e = <<".",".">> THEN
                  IF stack # <<>> /\ stack[Len(stack)] # <<".",".">>
                  THEN CleanElems(Tail(es), SubSeq(stack, 1, Len(stack) - 1), rooted)
                  ELSE IF rooted THEN CleanElems(Tail(es), stack, rooted)
                  ELSE CleanElems(Tail(es), Append(stack, e), rooted)
             ELSE CleanElems(Tail(es), Append(stack, e), rooted)

\* filepath.Clean
Clean(path) ==
    IF path = <<>> THEN <<".">>
    ELSE LET rooted == path[1] = "/"
             body == JoinElems(CleanElems(Split(path), <<>>, rooted))
             out == IF rooted THEN <<"/">> \o body ELSE body
         IN  IF out = <<>> THEN <<".">> ELSE out

\* filepath.Dir: everything up to the last separator, cleaned
Dir(path) == Clean(SubSeq(path, 1, LastIndex(path, "/")))

\* filepath.Join of two elements: empty elements are ignored, the result cleaned
Join(a, b) ==
    IF a = <<>> /\ b = <<>> THEN <<>>
    ELSE IF a = <<>> THEN Clean(b)
    ELSE IF b = <<>> THEN Clean(a)
    ELSE Clean(a \o <<"/">> \o b)

\* ------------------------------------------------------------ internal/input

\* the zero value of the returned path, cleanup and error
NoPath == [tmp |-> 0, name |-> <<>>]
Nil == [op |-> "nil", tmp |-> 0]
NoErr == ""

\* a path outside the temporary area (tmp = 0) and one inside the temporary
\* artifact numbered tmp, whose random part of the name the number stands for
LocalPath(name) == [tmp |-> 0, name |-> name]
TempPath(tmp, name) == [tmp |-> tmp, name |-> name]

\* what a strategy returns, the operations it performed on the temporary area,
\* and the strategy functions and external-tool functions that ran for it
Result(path, cleanup, err, ops) ==
    [path |-> path, cleanup |-> cleanup, err |-> err, ops |-> ops, calls |-> <<>>]

\* r, returned by the strategy function named name
Called(name, r) == [r EXCEPT !.calls = <<name>> \o @]

\* r, returned after the functions of os/exec named in externals ran
Exec(r, externals) == [r EXCEPT !.calls = externals]

\* var supportedExtensions, in declaration order
supportedExtensionsSeq ==
    << <<".","m","p","3">>, <<".","w","a","v">>, <<".","m","4","a">>, <<".","f","l","a","c">>, <<".","o","g","g">>, <<".","w","e","b","m">>, <<".","m","p","4">> >>

supportedExtensions == {supportedExtensionsSeq[k] : k \in 1..Len(supportedExtensionsSeq)}

\* the orders in which `for ext := range supportedExtensions` can visit the map:
\* the runtime starts the walk at an arbitrary entry
IterationOrders ==
    { [k \in 1..Len(supportedExtensionsSeq) |->
          supportedExtensionsSeq[((k + r - 1) % Len(supportedExtensionsSeq)) + 1]]
      : r \in 0..(Len(supportedExtensionsSeq) - 1) }

\* contentTypeMap of getAudioExtension, as pairs <<content type, extension>>
contentTypeMap ==
    { << <<"a","u","d","i","o","/","m","p","e","g">>, <<".","m","p","3">> >>, << <<"a","u","d","i","o","/","m","p","3">>, <<".","m","p","3">> >>,
      << <<"a","u","d","i","o","/","w","a","v">>, <<".","w","a","v">> >>, << <<"a","u","d","i","o","/","x","-","w","a","v">>, <<".","w","a","v">> >>,
      << <<"a","u","d","i","o","/","w","a","v","e">>, <<".","w","a","v">> >>, << <<"a","u","d","i","o","/","m","p","4">>, <<".","m","4","a">> >>,
      << <<"a","u","d","i","o","/","x","-","m","4","a">>, <<".","m","4","a">> >>, << <<"a","u","d","i","o","/","m","4","a">>, <<".","m","4","a">> >>,
      << <<"a","u","d","i","o","/","a","a","c">>, <<".","m","4","a">> >>, << <<"a","u","d","i","o","/","f","l","a","c">>, <<".","f","l","a","c">> >>,
      << <<"a","u","d","i","o","/","x","-","f","l","a","c">>, <<".","f","l","a","c">> >>, << <<"a","u","d","i","o","/","o","g","g">>, <<".","o","g","g">> >>,
      << <<"a","u","d","i","o","/","w","e","b","m">>, <<".","w","e","b","m">> >>, << <<"v","i","d","e","o","/","m","p","4">>, <<".","m","p","4">> >>,
      << <<"v","i","d","e","o","/","w","e","b","m">>, <<".","w","e","b","m">> >>, << <<"a","p","p","l","i","c","a","t","i","o","n","/","o","g","g">>, <<".","o","g","g">> >>,
      << <<"a","p","p","l","i","c","a","t","i","o","n","/","o","c","t","e","t","-","s","t","r","e","a","m">>, <<>> >> }

InContentTypeMap(ct) == \E e \in contentTypeMap : e[1] = ct
ContentTypeExt(ct) == (CHOOSE e \in contentTypeMap : e[1] = ct)[2]

\* the Content-Type with its parameters stripped (lines 152-156)
StripParams(contentType) ==
    LET idx == Index(contentType, ";")
    IN  IF idx # 0 THEN TrimSpace(SubSeq(contentType, 1, idx - 1)) ELSE contentType

\* the test of the fallback loop's body for one extension (lines 168-175)
UrlHasExt(resp, ext) ==
    LET lowerPath == ToLower(resp.urlPath)
        lowerURL == ToLower(resp.finalURL)
    IN  \/ HasSuffix(lowerPath, ext)
        \/ Contains(lowerURL, ext \o <<"?">>)
        \/ Contains(lowerURL, ext \o <<"&">>)

\* the first extension, in the order the map is walked, that the URL shows
RECURSIVE FirstUrlExt(_, _)
FirstUrlExt(resp, order) ==
    IF order = <<>> THEN <<>>
    ELSE IF UrlHasExt(resp, Head(order)) THEN Head(order)
    ELSE FirstUrlExt(resp, Tail(order))

\* getAudioExtension looking at the URL before the Content-Type
getAudioExtensionUrlFirst(resp, order) ==
    LET contentType == StripParams(resp.contentType)
        fromURL == FirstUrlExt(resp, order)
    IN  IF fromURL # <<>> THEN fromURL
        ELSE IF InContentTypeMap(contentType) /\ ContentTypeExt(contentType) # <<>>
        THEN ContentTypeExt(contentType)
        ELSE <<".","m","p","3">>

\* getAudioExtension; order is the order in which the runtime walks the map
getAudioExtension(resp, order) ==
    LET contentType == StripParams(resp.contentType)
        ok == InContentTypeMap(contentType)
        ext == IF ok THEN ContentTypeExt(contentType) ELSE <<>>
        fromURL == FirstUrlExt(resp, order)
    IN  IF ok /\ ext # <<>> THEN ext
        ELSE IF fromURL # <<>> THEN fromURL
        ELSE <<".","m","p","3">>

\* the bound of CheckRedirect (line 84)
MaxVia == 10
StatusOK == 200

\* CheckRedirect comparing with > where the code has >=
CheckRedirectLate(via) == IF via > MaxVia THEN "too many redirects" ELSE NoErr

\* CheckRedirect: via is the number of requests made already
CheckRedirect(via) == IF via >= MaxVia THEN "too many redirects" ELSE NoErr

\* http.Client.Get against a server that answers its first srv.hops requests
\* with a redirect and the next one with the final response. After a redirect
\* response the client asks CheckRedirect with the requests made so far, and
\* only then sends the next request. sent = the requests made so far.
RECURSIVE FollowRedirects(_, _)
FollowRedirects(srv, sent) ==
    IF sent > srv.hops
    THEN [err |-> NoErr, requests |-> sent]
    ELSE IF CheckRedirect(sent) # NoErr
    THEN [err |-> CheckRedirect(sent), requests |-> sent]
    ELSE FollowRedirects(srv, sent + 1)

ClientGet(srv) ==
    IF srv.transportErr THEN [err |-> "transport error", requests |-> 1]
    ELSE FollowRedirects(srv, 1)

\* net/url for the URLs of the model (no user info, fragment or escapes): the
\* path component of a URL
URLPath(u) ==
    LET rest == IF HasPrefix(u, <<"h","t","t","p","s",":","/","/">>) THEN SubSeq(u, 9, Len(u))
                ELSE SubSeq(u, 8, Len(u))
        q == Index(rest, "?")
        beforeQ == IF q = 0 THEN rest ELSE SubSeq(rest, 1, q - 1)
        sl == Index(beforeQ, "/")
    IN  IF sl = 0 THEN <<>> ELSE SubSeq(beforeQ, sl, Len(beforeQ))

\* the final response, as downloadDirect and getAudioExtension read it:
\* resp.Request.URL is the requested URL, or the last Location followed
Response(inputURL, srv) ==
    LET final == IF srv.hops = 0 THEN inputURL ELSE srv.location
    IN  [status |-> srv.status, contentType |-> srv.contentType,
         urlPath |-> URLPath(final), finalURL |-> final]

TempFileName(ext) == <<"w","h","i","s","p","e","r","-","l","r","c","-","*">> \o ext

\* downloadDirect creating the temporary file before the request is made and
\* the response checked
downloadDirectTempFirst(inputURL, net, tmp) ==
    LET got == ClientGet(net.srv)
        resp == Response(inputURL, net.srv)
        cleanup == [op |-> "Remove", tmp |-> tmp]
        undone == << <<"CreateTemp", tmp>>, <<"Remove", tmp>> >>
    IN  IF ~net.createTempOK
        THEN Result(NoPath, Nil, "failed to create temp file", <<>>)
        ELSE IF got.err # NoErr
        THEN Result(NoPath, Nil, "failed to download: " \o got.err, undone)
        ELSE IF resp.status # StatusOK
        THEN Result(NoPath, Nil, "download failed with status", undone)
        ELSE IF ~net.copyOK
        THEN Result(NoPath, Nil, "failed to save download", undone)
        ELSE Result(TempPath(tmp, TempFileName(<<".","m","p","3">>)), cleanup, NoErr,
                    << <<"CreateTemp", tmp>> >>)

\* downloadDirect returning the error of a failed copy without removing the file
downloadDirectLeak(inputURL, net, tmp) ==
    LET got == ClientGet(net.srv)
        resp == Response(inputURL, net.srv)
        ext == getAudioExtension(resp, net.order)
        cleanup == [op |-> "Remove", tmp |-> tmp]
    IN  IF got.err # NoErr
        THEN Result(NoPath, Nil, "failed to download: " \o got.err, <<>>)
        ELSE IF resp.status # StatusOK
        THEN Result(NoPath, Nil, "download failed with status", <<>>)
        ELSE IF HasPrefix(resp.contentType, <<"t","e","x","t","/","h","t","m","l">>)
        THEN Result(NoPath, Nil, "URL returned HTML instead of audio", <<>>)
        ELSE IF ~net.createTempOK
        THEN Result(NoPath, Nil, "failed to create temp file", <<>>)
        ELSE IF ~net.copyOK
        THEN Result(NoPath, Nil, "failed to save download", << <<"CreateTemp", tmp>> >>)
        ELSE Result(TempPath(tmp, TempFileName(ext)), cleanup, NoErr,
                    << <<"CreateTemp", tmp>> >>)

\* Handler.downloadDirect. net is what the network and the file system do
\* during the call: the server, whether os.CreateTemp and io.Copy succeed, and
\* the map iteration order; tmp names the temporary file CreateTemp would make.
downloadDirect(inputURL, net, tmp) ==
    LET got == ClientGet(net.srv)
        resp == Response(inputURL, net.srv)
        ext == getAudioExtension(resp, net.order)
        cleanup == [op |-> "Remove", tmp |-> tmp]
    IN  IF got.err # NoErr
        THEN Result(NoPath, Nil, "failed to download: " \o got.err, <<>>)
        ELSE IF resp.status # StatusOK
        THEN Result(NoPath, Nil, "download failed with status", <<>>)
        ELSE IF HasPrefix(resp.contentType, <<"t","e","x","t","/","h","t","m","l">>)
        THEN Result(NoPath, Nil, "URL returned HTML instead of audio", <<>>)
        ELSE IF ~net.createTempOK
        THEN Result(NoPath, Nil, "failed to create temp file", <<>>)
        ELSE IF ~net.copyOK
        THEN Result(NoPath, Nil, "failed to save download",
                    << <<"CreateTemp", tmp>>, <<"Remove", tmp>> >>)
        ELSE Result(TempPath(tmp, TempFileName(ext)), cleanup, NoErr,
                    << <<"CreateTemp", tmp>> >>)

\* Handler.downloadWithYtDlp. tool is what the system does during the call:
\* whether yt-dlp is on the search path, whether os.MkdirTemp succeeds, whether
\* the command exits with status zero, and how many files match audio.*
downloadWithYtDlp(url, tool, tmp) ==
    LET cleanup == [op |-> "RemoveAll", tmp |-> tmp]
        looked == <<"exec.LookPath">>
        ran == <<"exec.LookPath", "exec.Command">>
    IN  IF ~tool.lookPathOK
        THEN Exec(Result(NoPath, Nil, "yt-dlp not found", <<>>), looked)
        ELSE IF ~tool.mkdirTempOK
        THEN Exec(Result(NoPath, Nil, "failed to create temp directory", <<>>), looked)
        ELSE IF ~tool.exitOK
        THEN Exec(Result(NoPath, Nil, "yt-dlp failed",
                         << <<"MkdirTemp", tmp>>, <<"RemoveAll", tmp>> >>), ran)
        ELSE IF tool.globbed = 0
        THEN Exec(Result(NoPath, Nil,
                         "yt-dlp download completed but no audio file found",
                         << <<"MkdirTemp", tmp>>, <<"RemoveAll", tmp>> >>), ran)
        ELSE Exec(Result(TempPath(tmp, <<"a","u","d","i","o",".","m","p","3">>), cleanup, NoErr,
                         << <<"MkdirTemp", tmp>> >>), ran)

ytPatterns ==
    { <<"y","o","u","t","u","b","e",".","c","o","m","/","w","a","t","c","h">>, <<"y","o","u","t","u",".","b","e","/">>, <<"y","o","u","t","u","b","e",".","c","o","m","/","s","h","o","r","t","s","/">>,
      <<"y","o","u","t","u","b","e",".","c","o","m","/","l","i","v","e","/">>, <<"m","u","s","i","c",".","y","o","u","t","u","b","e",".","c","o","m","/","w","a","t","c","h">> }

\* isYouTubeURL
isYouTubeURL(url) == \E pattern \in ytPatterns : Contains(url, pattern)

\* os.Stat on the files of the user: files maps the cleaned paths that exist
Stat(files, path) ==
    IF Clean(path) \in DOMAIN files THEN files[Clean(path)].kind ELSE "notexist"

\* resolveLocalFile handing out a cleanup for the file of the user
resolveLocalFileOwned(path, files) ==
    IF Stat(files, path) # "file"
    THEN Result(NoPath, Nil, "file not found", <<>>)
    ELSE IF ToLower(Ext(path)) \notin supportedExtensions
    THEN Result(NoPath, Nil, "unsupported audio format", <<>>)
    ELSE Result(LocalPath(path), [op |-> "Remove", tmp |-> 0], NoErr, <<>>)

\* resolveLocalFile looking at the extension before asking whether the path is
\* a directory
resolveLocalFileExtFirst(path, files) ==
    IF Stat(files, path) = "notexist"
    THEN Result(NoPath, Nil, "file not found", <<>>)
    ELSE IF Stat(files, path) = "noaccess"
    THEN Result(NoPath, Nil, "failed to access file", <<>>)
    ELSE IF ToLower(Ext(path)) \notin supportedExtensions
    THEN Result(NoPath, Nil, "unsupported audio format", <<>>)
    ELSE IF Stat(files, path) = "dir"
    THEN Result(NoPath, Nil, "path is a directory", <<>>)
    ELSE Result(LocalPath(path), Nil, NoErr, <<>>)

\* Handler.resolveLocalFile
resolveLocalFile(path, files) ==
    IF Stat(files, path) = "notexist"
    THEN Result(NoPath, Nil, "file not found", <<>>)
    ELSE IF Stat(files, path) = "noaccess"
    THEN Result(NoPath, Nil, "failed to access file", <<>>)
    ELSE IF Stat(files, path) = "dir"
    THEN Result(NoPath, Nil, "path is a directory", <<>>)
    ELSE IF ToLower(Ext(path)) \notin supportedExtensions
    THEN Result(NoPath, Nil, "unsupported audio format", <<>>)
    ELSE Result(LocalPath(path), Nil, NoErr, <<>>)

\* resolveURL sending every URL of a hosting site to the extractor
resolveURLEager(useYtDlp, url, net, tool, tmp) ==
    IF isYouTubeURL(url)
    THEN Called("downloadWithYtDlp", downloadWithYtDlp(url, tool, tmp))
    ELSE Called("downloadDirect", downloadDirect(url, net, tmp))

\* Handler.resolveURL
resolveURL(useYtDlp, url, net, tool, tmp) ==
    IF useYtDlp /\ isYouTubeURL(url)
    THEN Called("downloadWithYtDlp", downloadWithYtDlp(url, tool, tmp))
    ELSE Called("downloadDirect", downloadDirect(url, net, tmp))

IsURL(input) == HasPrefix(input, <<"h","t","t","p",":","/","/">>) \/ HasPrefix(input, <<"h","t","t","p","s",":","/","/">>)

\* Handler.Resolve
Resolve(useYtDlp, input, files, net, tool, tmp) ==
    IF IsURL(input)
    THEN resolveURL(useYtDlp, input, net, tool, tmp)
    ELSE Called("resolveLocalFile", resolveLocalFile(input, files))

\* ------------------------------------------------------- internal/progress

\* truncate
truncate(s, maxLen) ==
    IF Len(s) <= maxLen THEN s ELSE SubSeq(s, 1, maxLen - 3) \o <<".",".",".">>

\* NewTracker; closed counts the close(t.done) calls, spawned the render goroutines
NewTracker(n) ==
    [total |-> n, current |-> 0, fileName |-> <<>>, status |-> "",
     errors |-> <<>>, completed |-> <<>>, started |-> FALSE,
     closed |-> 0, spawned |-> 0]

\* Tracker.Start
TrackerStart(t) == [t EXCEPT !.started = TRUE, !.spawned = @ + 1]

\* Tracker.Stop
\* a Stop that closes done whether or not the tracker is started
TrackerStopUnguarded(t) == [t EXCEPT !.closed = @ + 1, !.started = FALSE]

TrackerStop(t) ==
    IF t.started THEN [t EXCEPT !.closed = @ + 1, !.started = FALSE] ELSE t

\* what Tracker.Stop prints: the cleared progress line
StopOutput(t) == IF t.started THEN << [kind |-> "clear"] >> ELSE <<>>

\* Tracker.SetCurrent
SetCurrent(t, index, name) ==
    [t EXCEPT !.current = index, !.fileName = name, !.status = "Processing..."]

\* Tracker.SetStatus
SetStatus(t, status) == [t EXCEPT !.status = status]

\* Tracker.Complete and the line printCompleted prints
Complete(t, input, output) ==
    [t EXCEPT !.completed = Append(@, [input |-> input, output |-> output])]
printCompleted(input, output) ==
    [kind |-> "completed", input |-> truncate(input, 30), output |-> truncate(output, 30)]

\* Tracker.Error losing the entry
ErrorDropped(t, input, err) == t

\* Tracker.Error and the line printError prints
Error(t, input, err) ==
    [t EXCEPT !.errors = Append(@, [input |-> input, err |-> err])]
printError(input, err) ==
    [kind |-> "error", input |-> truncate(input, 30), err |-> err]

\* ------------------------------------------------------------------ cmd/root

invalidChars == << "/", "\\", ":", "*", "?", "\"", "<", ">", "|" >>

RECURSIVE ReplaceEach(_, _)
ReplaceEach(name, chars) ==
    IF chars = <<>> THEN name
    ELSE ReplaceEach(ReplaceAll(name, Head(chars), "_"), Tail(chars))

\* sanitizeFilename dropping the invalid characters
sanitizeFilenameStrip(name) == SelectSeq(name, LAMBDA c : \A k \in 1..9 : invalidChars[k] # c)

\* sanitizeFilename
sanitizeFilename(name) == ReplaceEach(name, invalidChars)

\* getOutputPath writing beside the working directory whatever the input
getOutputPathCwd(input, dirFlag, format) ==
    LET base == Base(input)
        name0 == TrimSuffix(base, Ext(base))
        name == IF IsURL(input)
                THEN IF sanitizeFilename(name0) = <<>> THEN <<"o","u","t","p","u","t">>
                     ELSE sanitizeFilename(name0)
                ELSE name0
        dir == IF dirFlag # <<>> THEN dirFlag ELSE <<".">>
    IN  Join(dir, name \o <<".">> \o format)

\* getOutputPath
getOutputPath(input, dirFlag, format) ==
    LET base == Base(input)
        ext == Ext(base)
        name0 == TrimSuffix(base, ext)
        name == IF IsURL(input)
                THEN IF sanitizeFilename(name0) = <<>> THEN <<"o","u","t","p","u","t">>
                     ELSE sanitizeFilename(name0)
                ELSE name0
        dir == IF dirFlag # <<>> THEN dirFlag
               ELSE IF IsURL(input) THEN <<".">> ELSE Dir(input)
    IN  Join(dir, name \o <<".">> \o format)

\* ------------------------------------------------------------ internal/output

\* fmt.Sprintf("%d") of a non-negative integer
Digits == << "0", "1", "2", "3", "4", "5", "6", "7", "8", "9" >>
RECURSIVE Itoa(_)
Itoa(n) == IF n < 10 THEN << Digits[n + 1] >> ELSE Itoa(n \div 10) \o << Digits[(n % 10) + 1] >>

\* fmt.Sprintf("%0wd"): zeros on the left up to the width w, never a truncation
ZeroPad(n, w) ==
    LET d == Itoa(n)
    IN  IF Len(d) >= w THEN d ELSE [k \in 1..(w - Len(d)) |-> "0"] \o d

\* formatLRCTimestamp keeping the last two digits of the milliseconds
formatLRCTimestampLowDigits(totalMs) ==
    LET mins == totalMs \div 60000
        secs == (totalMs % 60000) \div 1000
        centisecs == (totalMs % 1000) % 100
    IN  ZeroPad(mins, 2) \o <<":">> \o ZeroPad(secs, 2) \o <<".">> \o ZeroPad(centisecs, 2)

\* formatLRCTimestamp, from totalMs = int(seconds * 1000) on
formatLRCTimestamp(totalMs) ==
    LET mins == totalMs \div 60000
        secs == (totalMs % 60000) \div 1000
        centisecs == (totalMs % 1000) \div 10
    IN  ZeroPad(mins, 2) \o <<":">> \o ZeroPad(secs, 2) \o <<".">> \o ZeroPad(centisecs, 2)

\* formatSRTTimestamp, from totalMs = int(seconds * 1000) on
formatSRTTimestamp(totalMs) ==
    LET hours == totalMs \div 3600000
        mins == (totalMs % 3600000) \div 60000
        secs == (totalMs % 60000) \div 1000
        ms == totalMs % 1000
    IN  ZeroPad(hours, 2) \o <<":">> \o ZeroPad(mins, 2) \o <<":">> \o ZeroPad(secs, 2)
            \o <<",">> \o ZeroPad(ms, 3)

\* a whisper.Segment (times in whole milliseconds) and a TranscriptionResult
Segment(start, end, text) == [start |-> start, end |-> end, text |-> text]
TranscriptionResult(language, segments) == [language |-> language, segments |-> segments]

\* LRCFormatter.Format: the loop over the segments, then the whole document
RECURSIVE LRCLines(_)
LRCLines(segments) ==
    IF segments = <<>> THEN <<>>
    ELSE LET seg == Head(segments)
             timestamp == formatLRCTimestamp(seg.start)
             text == TrimSpace(seg.text)
         IN  <<"[">> \o timestamp \o <<"]">> \o text \o <<"\n">> \o LRCLines(Tail(segments))

LRCFormat(result) ==
    <<"[","r","e",":","w","h","i","s","p","e","r","-","l","r","c","]","\n">>
        \o (IF result.language # <<>> THEN <<"[","l","a",":">> \o result.language \o <<"]","\n">> ELSE <<>>)
        \o <<"\n">>
        \o LRCLines(result.segments)

\* SRTFormatter.Format: the loop over the segments from index i (0-based) on
RECURSIVE SRTBlocks(_, _)
SRTBlocks(segments, i) ==
    IF segments = <<>> THEN <<>>
    ELSE LET seg == Head(segments)
             startTS == formatSRTTimestamp(seg.start)
             endTS == formatSRTTimestamp(seg.end)
             text == TrimSpace(seg.text)
         IN  Itoa(i + 1) \o <<"\n">> \o startTS \o <<" ","-","-",">"," ">> \o endTS \o <<"\n">>
                 \o text \o <<"\n">> \o <<"\n">> \o SRTBlocks(Tail(segments), i + 1)

SRTFormat(result) == SRTBlocks(result.segments, 0)

\* formatter.Format of the formatter lines 85-90 chose
Format(format, result) ==
    IF format = <<"l","r","c">> THEN LRCFormat(result) ELSE SRTFormat(result)

\* --------------------------------------------------------------- the state

VARIABLES
    args,          \* the positional arguments
    apiKey,        \* --api-key
    envKey,        \* OPENAI_API_KEY
    outputFormat,  \* --format (runExtract lower-cases it in place)
    outputDir,     \* --output
    useYtDlp,      \* --yt-dlp
    pc,            \* where runExtract is
    i,             \* the loop index, 1-based
    res,           \* audioPath, cleanup, err of the last Resolve, and its operations
    outPath,       \* outPath of the current iteration
    errors,        \* var errors []string of runExtract
    tracker,       \* the progress.Tracker
    stdout,        \* the lines printed
    returned,      \* what runExtract returned ("" while running, "nil", or the error)
    exitCode,      \* the exit status of the process (-1 while running)
    files,         \* the files outside the temporary area: cleaned path -> kind, data
    temps,         \* the temporary files and directories that exist
    nextTmp,       \* names the next temporary artifact
    env,           \* what the network and the system do during the Resolve under test
    resolveLog,    \* history: the inputs passed to Resolve and what it returned
    transcribeLog, \* history: the indices of the inputs passed to Transcribe
    cleanupLog,    \* history: the temporary artifacts whose cleanup was invoked
    stages,        \* history: the stages of the loop body that ran, in order
    transcript,    \* the TranscriptionResult handed to the formatter under test
    content,       \* the document the formatter under test rendered
    mu,            \* Tracker.mu: the thread that holds it, or "free"
    step,          \* where the orchestrator is inside the Tracker method it called
    render,        \* where the render goroutine is
    snapshot,      \* the fields the render goroutine has read in this tick
    line,          \* the progress line the render goroutine printed last
    outputs        \* the output path of each input of the two-thread runs

vars ==
    << args, apiKey, envKey, outputFormat, outputDir, useYtDlp, pc, i, res, outPath,
       errors, tracker, stdout, returned, exitCode, files, temps, nextTmp, env,
       resolveLog, transcribeLog, cleanupLog, stages, transcript,
       content, mu, step, render, snapshot, line, outputs >>

\* the state only the specifications of single components use
aux == << transcript, content, mu, step, render, snapshot, line, outputs >>

\* the state only the specification of the two threads uses
threads == << mu, step, render, snapshot, line, outputs >>

\* ---------------------------------------------------- the inputs of the model

MaxArgs == 2
MaxHops == 11
MaxGlob == 2

InMp3 == <<"a",".","m","p","3">>
InLrc == <<"a",".","l","r","c">>
InWav == <<"d","/","b",".","W","A","V">>
InYt == <<"h","t","t","p","s",":","/","/","y","o","u","t","u",".","b","e","/","a">>

Catalog == {InMp3, InLrc, InWav, InYt}

RECURSIVE SeqsUpTo(_, _)
SeqsUpTo(S, n) ==
    IF n = 0 THEN {<<>>}
    ELSE LET shorter == SeqsUpTo(S, n - 1)
         IN  shorter \cup {Append(q, e) : q \in {t \in shorter : Len(t) = n - 1}, e \in S}

\* cobra.MinimumNArgs(1)
ArgLists == {q \in SeqsUpTo(Catalog, MaxArgs) : Len(q) >= 1}

UserData == [owner |-> "user", of |-> 0]
File(data) == [kind |-> "file", data |-> data]
Directory == [kind |-> "dir", data |-> UserData]

\* the files of the user before the run
UserFiles ==
    (InMp3 :> File(UserData)) @@ (InLrc :> File(UserData)) @@
    (<<"d">> :> Directory) @@ (<<"d","/","b",".","w","a","v">> :> File(UserData)) @@ (InWav :> File(UserData))

Srv(hops, status, contentType, location) ==
    [hops |-> hops, transportErr |-> FALSE, status |-> status,
     contentType |-> contentType, location |-> location]

Net(srv, createTempOK, copyOK, order) ==
    [srv |-> srv, createTempOK |-> createTempOK, copyOK |-> copyOK, order |-> order]

Tool(lookPathOK, mkdirTempOK, exitOK, globbed) ==
    [lookPathOK |-> lookPathOK, mkdirTempOK |-> mkdirTempOK, exitOK |-> exitOK,
     globbed |-> globbed]

OkNet == Net(Srv(0, StatusOK, <<"a","u","d","i","o","/","m","p","e","g">>, <<>>), TRUE, TRUE, supportedExtensionsSeq)
BadNet == Net(Srv(0, 404, <<"t","e","x","t","/","p","l","a","i","n">>, <<>>), TRUE, TRUE, supportedExtensionsSeq)
OkTool == Tool(TRUE, TRUE, TRUE, 1)
BadTool == Tool(TRUE, TRUE, FALSE, 0)

Env(net, tool) == [net |-> net, tool |-> tool]
NoEnv == Env(OkNet, OkTool)

\* what the world may do during one Resolve of a batch
BatchEnvs == {Env(OkNet, OkTool), Env(BadNet, BadTool)}

\* ---- the calls of the specification that exercises Resolve alone

InMissing == <<"g","o","n","e",".","o","g","g">>
InDirect == <<"h","t","t","p",":","/","/","h","/","x">>
InToken == <<"h","t","t","p",":","/","/","h","/","s",".","f","l","a","c","?","t","o","k","e","n","=","x">>

InUpper == <<"H","T","T","P",":","/","/","h","/","a",".","m","p","3">>
InYtQuery == <<"h","t","t","p",":","/","/","h","/","x","?","u","=","y","o","u","t","u",".","b","e","/","a">>
InYtLocal == <<"y","o","u","t","u",".","b","e","/","a",".","m","p","3">>
InDotted == <<".","/","a",".","m","p","3">>
InDir == <<"d">>

ProbeInputs ==
    { InMp3, InLrc, InWav, InMissing, InDirect, InToken, InYt, InUpper, InYtQuery,
      InYtLocal, InDotted, InDir }

\* a second layout: a directory named like an audio file, an unreadable path
OddFiles ==
    (InMp3 :> Directory) @@ (InLrc :> [kind |-> "noaccess", data |-> UserData])

ProbeDisks == {UserFiles, OddFiles}

HtmlType == <<"t","e","x","t","/","h","t","m","l",";"," ","c","h","a","r","s","e","t","=","u","t","f","-","8">>

\* redirect chains of every length, with and without the failures of each step
RedirectNets ==
    { Net([hops |-> h, transportErr |-> t, status |-> st, contentType |-> ct,
           location |-> <<"h","t","t","p",":","/","/","h","/","r">>], c, w, supportedExtensionsSeq)
      : h \in 0..MaxHops, t \in BOOLEAN, st \in {StatusOK, 404},
        ct \in {<<"a","u","d","i","o","/","m","p","e","g">>, HtmlType}, c \in BOOLEAN, w \in BOOLEAN }

ProbeTypes ==
    { <<>>, <<"a","u","d","i","o","/","m","p","e","g">>, <<"a","u","d","i","o","/","f","l","a","c">>, <<"a","u","d","i","o","/","o","g","g",";"," ","c","o","d","e","c","s","=","o","p","u","s">>,
      <<"a","p","p","l","i","c","a","t","i","o","n","/","o","c","t","e","t","-","s","t","r","e","a","m">>, <<"a","p","p","l","i","c","a","t","i","o","n","/","o","c","t","e","t","-","s","t","r","e","a","m"," ",";","q","=","1">>,
      <<"a","u","d","i","o","/","x","-","a","i","f","f">>, <<"t","e","x","t","/","p","l","a","i","n">>, <<"A","u","d","i","o","/","M","P","E","G">> }

ProbeLocations ==
    { <<"h","t","t","p",":","/","/","h","/","s",".","f","l","a","c","?","t","o","k","e","n","=","x">>, <<"h","t","t","p",":","/","/","h","/","s",".","f","l","a","c">>, <<"h","t","t","p",":","/","/","h","/","s">>,
      <<"h","t","t","p",":","/","/","h","/","d","l","?","f","=","a",".","o","g","g","&","k","=","1">>, <<"h","t","t","p",":","/","/","h","/","a",".","o","g","g","?","u","=","b",".","f","l","a","c","?","t","o","k","e","n","=","x">>,
      <<"h","t","t","p",":","/","/","h","/","S",".","W","A","V">>, <<"h","t","t","p",":","/","/","h","/","x",".","f","l","a","c","/","y">>, <<"h","t","t","p",":","/","/","h","/","d","l","?","f","=","a",".","m","4","a">>,
      <<"h","t","t","p",":","/","/","h","/","a",".","m","p","3","?","u","=","b",".","f","l","a","c","&","k","=","1">> }

\* successful responses of every content type, final URL and map iteration order
ExtensionNets ==
    { Net(Srv(h, StatusOK, ct, loc), TRUE, TRUE, order)
      : h \in {0, 1}, ct \in ProbeTypes, loc \in ProbeLocations,
        order \in IterationOrders }

ProbeTools ==
    { Tool(l, m, x, g) : l \in BOOLEAN, m \in BOOLEAN, x \in BOOLEAN, g \in 0..MaxGlob }

ProbeEnvs ==
    {Env(n, OkTool) : n \in RedirectNets \cup ExtensionNets}
        \cup {Env(OkNet, t) : t \in ProbeTools}

NoTracker == NewTracker(0)
NoTranscript == TranscriptionResult(<<>>, <<>>)
NoSnapshot == [current |-> 0, fileName |-> <<>>, status |-> "", stopped |-> FALSE]
NoResult == Result(NoPath, Nil, NoErr, <<>>)

Init ==
    /\ args \in ArgLists
    /\ apiKey \in {"", "sk-flag"}
    /\ envKey \in {"", "sk-env"}
    /\ outputFormat \in {<<"l","r","c">>, <<"S","R","T">>, <<"t","x","t">>}
    /\ outputDir \in {<<>>, <<"o","u","t">>}
    /\ useYtDlp \in BOOLEAN
    /\ pc = "start"
    /\ i = 0
    /\ res = NoResult
    /\ outPath = <<>>
    /\ errors = <<>>
    /\ tracker = NoTracker
    /\ stdout = <<>>
    /\ returned = ""
    /\ exitCode = -1
    /\ files = UserFiles
    /\ temps = {}
    /\ nextTmp = 1
    /\ env = NoEnv
    /\ resolveLog = <<>>
    /\ transcribeLog = <<>>
    /\ cleanupLog = <<>>
    /\ stages = <<>>
    /\ transcript = NoTranscript
    /\ content = <<>>
    /\ mu = "free"
    /\ step = "none"
    /\ render = "none"
    /\ snapshot = NoSnapshot
    /\ line = NoSnapshot
    /\ outputs = <<>>

\* ------------------------------------------------------------ runExtract

arg == args[i]

\* the operations a strategy performed, applied to the temporary area
RECURSIVE ApplyOps(_, _)
ApplyOps(T, ops) ==
    IF ops = <<>> THEN T
    ELSE LET op == Head(ops)
         IN  IF op[1] \in {"CreateTemp", "MkdirTemp"}
             THEN ApplyOps(T \cup {op[2]}, Tail(ops))
             ELSE ApplyOps(T \ {op[2]}, Tail(ops))

\* lines 66-74: the API key
Key == IF apiKey = "" THEN envKey ELSE apiKey

\* lines 66-95, a missing key
StartNoKey ==
    /\ pc = "start"
    /\ Key = ""
    /\ returned' = "OpenAI API key required"
    /\ pc' = "returned"
    /\ UNCHANGED << aux, stages, args, apiKey, envKey, outputFormat, outputDir, useYtDlp, i, res,
                    outPath, errors, tracker, stdout, exitCode, files, temps, nextTmp,
                    env, resolveLog, transcribeLog, cleanupLog >>

\* lines 76-80, an invalid format
StartBadFormat ==
    /\ pc = "start"
    /\ Key # ""
    /\ outputFormat' = ToLower(outputFormat)
    /\ outputFormat' \notin {<<"l","r","c">>, <<"s","r","t">>}
    /\ returned' = "invalid output format"
    /\ pc' = "returned"
    /\ UNCHANGED << aux, stages, args, apiKey, envKey, outputDir, useYtDlp, i, res, outPath, errors,
                    tracker, stdout, exitCode, files, temps, nextTmp, env, resolveLog,
                    transcribeLog, cleanupLog >>

\* Start without the validation of the format
StartUnchecked ==
    /\ pc = "start"
    /\ Key # ""
    /\ outputFormat' = ToLower(outputFormat)
    /\ tracker' = TrackerStart(NewTracker(Len(args)))
    /\ i' = 1
    /\ pc' = "loop"
    /\ UNCHANGED << aux, stages, args, apiKey, envKey, outputDir, useYtDlp, res, outPath, errors,
                    stdout, returned, exitCode, files, temps, nextTmp, env, resolveLog,
                    transcribeLog, cleanupLog >>

\* lines 66-98 with a valid configuration: the tracker is created and started
Start ==
    /\ pc = "start"
    /\ Key # ""
    /\ outputFormat' = ToLower(outputFormat)
    /\ outputFormat' \in {<<"l","r","c">>, <<"s","r","t">>}
    /\ tracker' = TrackerStart(NewTracker(Len(args)))
    /\ i' = 1
    /\ pc' = "loop"
    /\ UNCHANGED << aux, stages, args, apiKey, envKey, outputDir, useYtDlp, res, outPath, errors,
                    stdout, returned, exitCode, files, temps, nextTmp, env, resolveLog,
                    transcribeLog, cleanupLog >>

\* line 100
LoopHead ==
    /\ pc = "loop"
    /\ i <= Len(args)
    /\ tracker' = SetCurrent(tracker, i, Base(arg))
    /\ pc' = "resolve"
    /\ UNCHANGED << aux, stages, args, apiKey, envKey, outputFormat, outputDir, useYtDlp, i, res,
                    outPath, errors, stdout, returned, exitCode, files, temps, nextTmp,
                    env, resolveLog, transcribeLog, cleanupLog >>

\* one stage of the loop body having run for input n, and whether it succeeded
Stage(name, n, ok) == [stage |-> name, input |-> n, ok |-> ok]

\* the stage `if cleanup != nil { cleanup() }` adds
CleanupStages == IF res.cleanup # Nil THEN << Stage("cleanup", i, TRUE) >> ELSE <<>>

\* `if cleanup != nil { cleanup() }`
RunCleanup ==
    IF res.cleanup # Nil
    THEN /\ temps' = temps \ {res.cleanup.tmp}
         /\ cleanupLog' = Append(cleanupLog, res.cleanup.tmp)
    ELSE UNCHANGED << temps, cleanupLog >>

\* a failure that leaves the loop (break) where the code continues
RecordFailureAbort(err) ==
    /\ errors' = Append(errors, [input |-> arg, err |-> err])
    /\ tracker' = Error(tracker, arg, err)
    /\ stdout' = Append(stdout, printError(arg, err))
    /\ i' = Len(args) + 1
    /\ pc' = "loop"

\* errors = append(errors, ...); tracker.Error(arg, err); continue
RecordFailure(err) ==
    /\ errors' = Append(errors, [input |-> arg, err |-> err])
    /\ tracker' = Error(tracker, arg, err)
    /\ stdout' = Append(stdout, printError(arg, err))
    /\ i' = i + 1
    /\ pc' = "loop"

\* the history entry of one Resolve call
Returned(input, r) == [input |-> input, cleanup |-> r.cleanup, err |-> r.err]

\* lines 103-110 without the continue: a failed Resolve is recorded and the
\* body goes on to the transcription
DoResolveNoContinue ==
    /\ pc = "resolve"
    /\ \E e \in BatchEnvs :
         LET r == Resolve(useYtDlp, arg, files, e.net, e.tool, nextTmp)
         IN  /\ res' = r
             /\ resolveLog' = Append(resolveLog, Returned(arg, r))
             /\ temps' = ApplyOps(temps, r.ops)
             /\ nextTmp' = IF r.ops = <<>> THEN nextTmp ELSE nextTmp + 1
             /\ IF r.err # NoErr
                THEN /\ errors' = Append(errors, [input |-> arg, err |-> r.err])
                     /\ tracker' = SetStatus(Error(tracker, arg, r.err), "Transcribing...")
                     /\ stdout' = Append(stdout, printError(arg, r.err))
                     /\ stages' = stages \o << Stage("resolve", i, FALSE),
                                               Stage("error", i, TRUE) >>
                ELSE /\ tracker' = SetStatus(tracker, "Transcribing...")
                     /\ stages' = Append(stages, Stage("resolve", i, TRUE))
                     /\ UNCHANGED << errors, stdout >>
    /\ pc' = "transcribe"
    /\ UNCHANGED << aux, args, apiKey, envKey, outputFormat, outputDir, useYtDlp, outPath,
                    returned, exitCode, files, env, transcribeLog, cleanupLog, i >>

\* lines 103-110
DoResolve ==
    /\ pc = "resolve"
    /\ \E e \in BatchEnvs :
         LET r == Resolve(useYtDlp, arg, files, e.net, e.tool, nextTmp)
         IN  /\ res' = r
             /\ resolveLog' = Append(resolveLog, Returned(arg, r))
             /\ temps' = ApplyOps(temps, r.ops)
             /\ nextTmp' = IF r.ops = <<>> THEN nextTmp ELSE nextTmp + 1
             /\ IF r.err # NoErr
                THEN /\ RecordFailure(r.err)
                     /\ stages' = stages \o << Stage("resolve", i, FALSE),
                                               Stage("error", i, TRUE) >>
                ELSE /\ tracker' = SetStatus(tracker, "Transcribing...")
                     /\ pc' = "transcribe"
                     /\ stages' = Append(stages, Stage("resolve", i, TRUE))
                     /\ UNCHANGED << errors, stdout, i >>
    /\ UNCHANGED << aux, args, apiKey, envKey, outputFormat, outputDir, useYtDlp, outPath,
                    returned, exitCode, files, env, transcribeLog, cleanupLog >>

\* os.Open of Client.Transcribe (part_001 lines 48-51)
CanOpen(path) ==
    IF path.tmp = 0 THEN Stat(files, path.name) = "file" ELSE path.tmp \in temps

\* Client.Transcribe: the first error it returns, apiOK being what the service does
Transcribe(audioPath, apiOK) ==
    IF ~CanOpen(audioPath) THEN "failed to open audio file"
    ELSE IF ~apiOK THEN "API error"
    ELSE NoErr

\* the failure branch of the transcription without its cleanup call
TranscribeFailedLeak ==
    /\ pc = "transcribe"
    /\ \E apiOK \in BOOLEAN :
         /\ Transcribe(res.path, apiOK) # NoErr
         /\ RecordFailure(Transcribe(res.path, apiOK))
    /\ transcribeLog' = Append(transcribeLog, i)
    /\ stages' = stages \o << Stage("transcribe", i, FALSE), Stage("error", i, TRUE) >>
    /\ UNCHANGED << aux, args, apiKey, envKey, outputFormat, outputDir, useYtDlp, res,
                    outPath, returned, exitCode, files, nextTmp, env, resolveLog,
                    temps, cleanupLog >>

\* lines 115-123: the transcription fails
TranscribeFailed ==
    /\ pc = "transcribe"
    /\ \E apiOK \in BOOLEAN :
         /\ Transcribe(res.path, apiOK) # NoErr
         /\ RecordFailure(Transcribe(res.path, apiOK))
    /\ RunCleanup
    /\ transcribeLog' = Append(transcribeLog, i)
    /\ stages' = stages \o << Stage("transcribe", i, FALSE) >> \o CleanupStages
                        \o << Stage("error", i, TRUE) >>
    /\ UNCHANGED << aux, args, apiKey, envKey, outputFormat, outputDir, useYtDlp, res,
                    outPath, returned, exitCode, files, nextTmp, env, resolveLog >>

\* lines 115-129: the transcript is rendered and the output path computed
TranscribeOK ==
    /\ pc = "transcribe"
    /\ Transcribe(res.path, TRUE) = NoErr
    /\ transcribeLog' = Append(transcribeLog, i)
    /\ outPath' = getOutputPath(arg, outputDir, outputFormat)
    /\ stages' = stages \o << Stage("transcribe", i, TRUE), Stage("format", i, TRUE) >>
    /\ pc' = "mkdir"
    /\ UNCHANGED << aux, args, apiKey, envKey, outputFormat, outputDir, useYtDlp, i, res,
                    errors, tracker, stdout, returned, exitCode, files, temps, nextTmp,
                    env, resolveLog, cleanupLog >>

\* os.MkdirAll cannot succeed over a file, and cannot fail on a directory
MkdirAllCan(dir, ok) ==
    IF Stat(files, dir) \in {"file", "noaccess"} THEN ~ok
    ELSE IF Stat(files, dir) = "dir" \/ dir = <<".">> THEN ok
    ELSE TRUE

\* lines 132-139: the output directory cannot be created
MkdirFailed ==
    /\ pc = "mkdir"
    /\ MkdirAllCan(Dir(outPath), FALSE)
    /\ RecordFailure("mkdir failed")
    /\ RunCleanup
    /\ stages' = stages \o CleanupStages \o << Stage("error", i, TRUE) >>
    /\ UNCHANGED << aux, args, apiKey, envKey, outputFormat, outputDir, useYtDlp, res,
                    outPath, returned, exitCode, files, nextTmp, env, resolveLog,
                    transcribeLog >>

\* line 132: the output directory exists afterwards
MkdirOK ==
    /\ pc = "mkdir"
    /\ MkdirAllCan(Dir(outPath), TRUE)
    /\ files' = IF Dir(outPath) \in DOMAIN files \/ Dir(outPath) = <<".">> THEN files
                ELSE (Dir(outPath) :> Directory) @@ files
    /\ pc' = "write"
    /\ UNCHANGED << aux, stages, args, apiKey, envKey, outputFormat, outputDir, useYtDlp, i, res,
                    outPath, errors, tracker, stdout, returned, exitCode, temps, nextTmp,
                    env, resolveLog, transcribeLog, cleanupLog >>

\* the document formatter.Format renders from the transcript of input n
Document(n) == [owner |-> "document", of |-> n]
\* what a write that failed half-way leaves behind
Partial(n) == [owner |-> "partial", of |-> n]

\* os.WriteFile opens with O_CREATE|O_TRUNC, writes and closes: it fails at the
\* open ("open"), or after the file was truncated ("write"), or not at all ("ok")
WriteFileCan(path, outcome) ==
    IF Stat(files, path) \in {"dir", "noaccess"} THEN outcome = "open" ELSE TRUE

WriteFile(F, path, n, outcome) ==
    IF outcome = "open" THEN F
    ELSE IF outcome = "write" THEN (path :> File(Partial(n))) @@ F
    ELSE (path :> File(Document(n))) @@ F

\* lines 141-148: the write fails
WriteFailed ==
    /\ pc = "write"
    /\ \E outcome \in {"open", "write"} :
         /\ WriteFileCan(outPath, outcome)
         /\ files' = WriteFile(files, outPath, i, outcome)
    /\ RecordFailure("write failed")
    /\ RunCleanup
    /\ stages' = stages \o << Stage("write", i, FALSE) >> \o CleanupStages
                        \o << Stage("error", i, TRUE) >>
    /\ UNCHANGED << aux, args, apiKey, envKey, outputFormat, outputDir, useYtDlp, res,
                    outPath, returned, exitCode, nextTmp, env, resolveLog,
                    transcribeLog >>

\* the success branch of the write without its cleanup call
WriteOKLeak ==
    /\ pc = "write"
    /\ WriteFileCan(outPath, "ok")
    /\ files' = WriteFile(files, outPath, i, "ok")
    /\ stages' = stages \o << Stage("write", i, TRUE), Stage("complete", i, TRUE) >>
    /\ tracker' = Complete(tracker, arg, outPath)
    /\ stdout' = Append(stdout, printCompleted(arg, outPath))
    /\ i' = i + 1
    /\ pc' = "loop"
    /\ UNCHANGED << aux, args, apiKey, envKey, outputFormat, outputDir, useYtDlp, res,
                    outPath, errors, returned, exitCode, nextTmp, env, resolveLog,
                    transcribeLog, temps, cleanupLog >>

\* lines 141-155: the write succeeds, the temporary files are removed and the
\* completion is reported
WriteOK ==
    /\ pc = "write"
    /\ WriteFileCan(outPath, "ok")
    /\ files' = WriteFile(files, outPath, i, "ok")
    /\ RunCleanup
    /\ stages' = stages \o << Stage("write", i, TRUE) >> \o CleanupStages
                        \o << Stage("complete", i, TRUE) >>
    /\ tracker' = Complete(tracker, arg, outPath)
    /\ stdout' = Append(stdout, printCompleted(arg, outPath))
    /\ i' = i + 1
    /\ pc' = "loop"
    /\ UNCHANGED << aux, args, apiKey, envKey, outputFormat, outputDir, useYtDlp, res,
                    outPath, errors, returned, exitCode, nextTmp, env, resolveLog,
                    transcribeLog >>

\* line 158
StopTracker ==
    /\ pc = "loop"
    /\ i > Len(args)
    /\ tracker' = TrackerStop(tracker)
    /\ stdout' = stdout \o StopOutput(tracker)
    /\ pc' = "summary"
    /\ UNCHANGED << aux, stages, args, apiKey, envKey, outputFormat, outputDir, useYtDlp, i, res,
                    outPath, errors, returned, exitCode, files, temps, nextTmp, env,
                    resolveLog, transcribeLog, cleanupLog >>

\* the summary counting every input as failed
SummaryLinesTotal ==
    IF Len(errors) > 0
    THEN << [kind |-> "blank"], [kind |-> "failed", n |-> Len(args)] >>
         \o [k \in 1..Len(errors) |-> [kind |-> "item", text |-> errors[k]]]
    ELSE << [kind |-> "blank"], [kind |-> "succeeded", n |-> Len(args)] >>

\* the lines of the summary (lines 161-170)
SummaryLines ==
    IF Len(errors) > 0
    THEN << [kind |-> "blank"], [kind |-> "failed", n |-> Len(errors)] >>
         \o [k \in 1..Len(errors) |-> [kind |-> "item", text |-> errors[k]]]
    ELSE << [kind |-> "blank"], [kind |-> "succeeded", n |-> Len(args)] >>

\* the summary reporting an error only when no input succeeded
SummaryLenient ==
    /\ pc = "summary"
    /\ stdout' = stdout \o SummaryLines \o StopOutput(tracker)
    /\ returned' = IF Len(errors) = Len(args) THEN "some files failed to process"
                   ELSE "nil"
    /\ tracker' = TrackerStop(tracker)
    /\ pc' = "returned"
    /\ UNCHANGED << aux, stages, args, apiKey, envKey, outputFormat, outputDir, useYtDlp, i, res,
                    outPath, errors, exitCode, files, temps, nextTmp, env, resolveLog,
                    transcribeLog, cleanupLog >>

\* lines 160-171, and the deferred tracker.Stop() of line 95 that runs at the return
Summary ==
    /\ pc = "summary"
    /\ stdout' = stdout \o SummaryLines \o StopOutput(tracker)
    /\ returned' = IF Len(errors) > 0 THEN "some files failed to process" ELSE "nil"
    /\ tracker' = TrackerStop(tracker)
    /\ pc' = "returned"
    /\ UNCHANGED << aux, stages, args, apiKey, envKey, outputFormat, outputDir, useYtDlp, i, res,
                    outPath, errors, exitCode, files, temps, nextTmp, env, resolveLog,
                    transcribeLog, cleanupLog >>

\* Execute: os.Exit(1) if the command returned an error
Execute ==
    /\ pc = "returned"
    /\ exitCode' = IF returned # "nil" THEN 1 ELSE 0
    /\ pc' = "exited"
    /\ UNCHANGED << aux, stages, args, apiKey, envKey, outputFormat, outputDir, useYtDlp, i, res,
                    outPath, errors, tracker, stdout, returned, files, temps, nextTmp,
                    env, resolveLog, transcribeLog, cleanupLog >>

Next ==
    \/ StartNoKey
    \/ StartBadFormat
    \/ Start
    \/ LoopHead
    \/ DoResolve
    \/ TranscribeFailed
    \/ TranscribeOK
    \/ MkdirFailed
    \/ MkdirOK
    \/ WriteOK
    \/ WriteFailed
    \/ StopTracker
    \/ Summary
    \/ Execute

Spec == Init /\ [][Next]_vars

\* ------------------------------------------- Resolve exercised on its own

\* one call of Handler.Resolve on an arbitrary input, in an arbitrary world
InitResolve ==
    /\ \E input \in ProbeInputs : args = <<input>>
    /\ useYtDlp \in BOOLEAN
    /\ files \in ProbeDisks
    /\ env \in ProbeEnvs
    /\ IsURL(args[1]) \/ env = NoEnv
    /\ ~IsURL(args[1]) \/ files = UserFiles
    /\ apiKey = "sk-flag"
    /\ envKey = ""
    /\ outputFormat = <<"l","r","c">>
    /\ outputDir = <<>>
    /\ pc = "probe"
    /\ i = 1
    /\ res = NoResult
    /\ outPath = <<>>
    /\ errors = <<>>
    /\ tracker = NoTracker
    /\ stdout = <<>>
    /\ returned = ""
    /\ exitCode = -1
    /\ temps = {}
    /\ nextTmp = 1
    /\ resolveLog = <<>>
    /\ transcribeLog = <<>>
    /\ cleanupLog = <<>>
    /\ stages = <<>>
    /\ transcript = NoTranscript
    /\ content = <<>>
    /\ mu = "free"
    /\ step = "none"
    /\ render = "none"
    /\ snapshot = NoSnapshot
    /\ line = NoSnapshot
    /\ outputs = <<>>

ProbeResolve ==
    /\ pc = "probe"
    /\ LET r == Resolve(useYtDlp, arg, files, env.net, env.tool, nextTmp)
       IN  /\ res' = r
           /\ resolveLog' = Append(resolveLog, Returned(arg, r))
           /\ temps' = ApplyOps(temps, r.ops)
           /\ nextTmp' = IF r.ops = <<>> THEN nextTmp ELSE nextTmp + 1
    /\ pc' = "probed"
    /\ UNCHANGED << aux, stages, args, apiKey, envKey, outputFormat, outputDir, useYtDlp, i, outPath,
                    errors, tracker, stdout, returned, exitCode, files, env,
                    transcribeLog, cleanupLog >>

NextResolve == ProbeResolve

SpecResolve == InitResolve /\ [][NextResolve]_vars

\* ------------------------------------- getOutputPath exercised on its own

\* local inputs that resolve (a supported extension), in and out of cleaned form
NameLocals ==
    { InMp3, InWav, InDotted, <<"/","r","/","c",".","t","a","r",".","o","g","g">>, <<".","m","p","3">>, <<"x","/",".",".","/","y",".","o","g","g">>, <<"d","/","/","e",".","m","4","a">>,
      <<"a"," ","b",".","f","l","a","c">> }

\* URL inputs, with and without the characters sanitizeFilename replaces
NameURLs ==
    { InDirect, InToken, InYt, <<"h","t","t","p","s",":","/","/","y","o","u","t","u","b","e",".","c","o","m","/","w","a","t","c","h","?","v","=","a">>, <<"h","t","t","p","s",":","/","/","h","/",".","m","p","3">>,
      <<"h","t","t","p","s",":","/","/","h","/","a",":","b","*","c">>, <<"h","t","t","p","s",":","/","/","h","/","q","\"","<",">","|","\\","z",".","m","p","3">>, <<"h","t","t","p",":","/","/","h","/","d","/">>, <<"h","t","t","p","s",":","/","/","h","/","a","_","b",".","o","g","g">>,
      <<"h","t","t","p","s",":","/","/","h","/","?",".","o","g","g">> }

NameDirs == { <<>>, <<"o","u","t">>, <<"o","u","t","/">>, <<"/","t","/",".",".","/","o">>, <<".">> }

\* one call of getOutputPath, as line 129 makes it
InitOutput ==
    /\ \E input \in NameLocals \cup NameURLs : args = <<input>>
    /\ outputDir \in NameDirs
    /\ outputFormat \in {<<"l","r","c">>, <<"s","r","t">>}
    /\ pc = "name"
    /\ i = 1
    /\ apiKey = "sk-flag"
    /\ envKey = ""
    /\ useYtDlp = FALSE
    /\ res = NoResult
    /\ outPath = <<>>
    /\ errors = <<>>
    /\ tracker = NoTracker
    /\ stdout = <<>>
    /\ returned = ""
    /\ exitCode = -1
    /\ files = UserFiles
    /\ temps = {}
    /\ nextTmp = 1
    /\ env = NoEnv
    /\ resolveLog = <<>>
    /\ transcribeLog = <<>>
    /\ cleanupLog = <<>>
    /\ stages = <<>>
    /\ transcript = NoTranscript
    /\ content = <<>>
    /\ mu = "free"
    /\ step = "none"
    /\ render = "none"
    /\ snapshot = NoSnapshot
    /\ line = NoSnapshot
    /\ outputs = <<>>

NameOutput ==
    /\ pc = "name"
    /\ outPath' = getOutputPath(arg, outputDir, outputFormat)
    /\ pc' = "named"
    /\ UNCHANGED << aux, stages, args, apiKey, envKey, outputFormat, outputDir, useYtDlp, i, res,
                    errors, tracker, stdout, returned, exitCode, files, temps, nextTmp,
                    env, resolveLog, transcribeLog, cleanupLog >>

NextOutput == NameOutput

SpecOutput == InitOutput /\ [][NextOutput]_vars

\* ------------------------------------- the formatters exercised on their own

MaxSegs == 2

\* segments whose times cross every unit boundary, whose text has white space
\* around it, is empty, or holds the characters the formats use
SegmentPool ==
    { Segment(0, 999, <<" ","l","a"," ">>),
      Segment(61234, 3599999, <<"l","a"," ","l","a">>),
      Segment(3600000, 3723456, <<>>),
      Segment(6000007, 360000000, <<"\t","[","l","a","]"," ","-","-",">"," ","1","\n">>),
      Segment(59999, 1005, <<"l","a","\r">>) }

Transcripts ==
    { TranscriptionResult(l, q) : l \in {<<>>, <<"e","n">>}, q \in SeqsUpTo(SegmentPool, MaxSegs) }

\* one call of formatter.Format, as line 126 makes it
InitFormat ==
    /\ transcript \in Transcripts
    /\ outputFormat \in {<<"l","r","c">>, <<"s","r","t">>}
    /\ content = <<>>
    /\ mu = "free"
    /\ step = "none"
    /\ render = "none"
    /\ snapshot = NoSnapshot
    /\ line = NoSnapshot
    /\ outputs = <<>>
    /\ pc = "format"
    /\ args = <<InMp3>>
    /\ i = 1
    /\ apiKey = "sk-flag"
    /\ envKey = ""
    /\ outputDir = <<>>
    /\ useYtDlp = FALSE
    /\ res = NoResult
    /\ outPath = <<>>
    /\ errors = <<>>
    /\ tracker = NoTracker
    /\ stdout = <<>>
    /\ returned = ""
    /\ exitCode = -1
    /\ files = UserFiles
    /\ temps = {}
    /\ nextTmp = 1
    /\ env = NoEnv
    /\ resolveLog = <<>>
    /\ transcribeLog = <<>>
    /\ cleanupLog = <<>>
    /\ stages = <<>>

FormatContent ==
    /\ pc = "format"
    /\ content' = Format(outputFormat, transcript)
    /\ pc' = "formatted"
    /\ UNCHANGED << threads, stages, transcript, args, apiKey, envKey, outputFormat, outputDir, useYtDlp,
                    i, res, outPath, errors, tracker, stdout, returned, exitCode, files,
                    temps, nextTmp, env, resolveLog, transcribeLog, cleanupLog >>

NextFormat == FormatContent

SpecFormat == InitFormat /\ [][NextFormat]_vars

\* ------------------------------- the orchestrator and the render goroutine

MaxInputs == 2

\* the k-th input of a batch
InputName(k) == <<"d","/","f">> \o Itoa(k) \o <<".","m","p","3">>

\* runExtract once the tracker is started (line 94), one input list per length
InitTracker ==
    /\ \E n \in 1..MaxInputs : args = [k \in 1..n |-> InputName(k)]
    /\ tracker = TrackerStart(NewTracker(Len(args)))
    /\ render = "select"
    /\ pc = "SetCurrent"
    /\ step = "none"
    /\ mu = "free"
    /\ snapshot = NoSnapshot
    /\ line = NoSnapshot
    /\ outputs = [k \in 1..Len(args) |-> getOutputPath(args[k], <<>>, <<"l","r","c">>)]
    /\ i = 1
    /\ apiKey = "sk-flag"
    /\ envKey = ""
    /\ outputFormat = <<"l","r","c">>
    /\ outputDir = <<>>
    /\ useYtDlp = FALSE
    /\ res = NoResult
    /\ outPath = <<>>
    /\ errors = <<>>
    /\ stdout = <<>>
    /\ returned = ""
    /\ exitCode = -1
    /\ files = UserFiles
    /\ temps = {}
    /\ nextTmp = 1
    /\ env = NoEnv
    /\ resolveLog = <<>>
    /\ transcribeLog = <<>>
    /\ cleanupLog = <<>>
    /\ stages = <<>>
    /\ transcript = NoTranscript
    /\ content = <<>>

\* what the actions of the two threads leave alone
Untracked ==
    UNCHANGED << args, apiKey, envKey, outputFormat, outputDir, useYtDlp, res, outPath,
                 returned, exitCode, files, temps, nextTmp, env, resolveLog,
                 transcribeLog, cleanupLog, stages, transcript, content, outputs >>

\* the Tracker methods that take the mutex, and the calls that block on I/O
Locking == {"SetCurrent", "SetStatus", "Complete", "Error"}
Blocking == {"Resolve", "Transcribe", "Write"}

\* SetCurrent of a Tracker without the mutex
CallUnlocked ==
    /\ pc \in Locking
    /\ step = "none"
    /\ step' = IF pc = "SetCurrent" THEN "current" ELSE "lock"
    /\ UNCHANGED << pc, i, tracker, errors, stdout, mu, render, snapshot, line >>
    /\ Untracked

\* the orchestrator calls a method of the tracker: it arrives at t.mu.Lock()
Call ==
    /\ pc \in Locking
    /\ step = "none"
    /\ step' = "lock"
    /\ UNCHANGED << pc, i, tracker, errors, stdout, mu, render, snapshot, line >>
    /\ Untracked

\* t.mu.Lock() of the orchestrator
Lock ==
    /\ step = "lock"
    /\ mu = "free"
    /\ mu' = "main"
    /\ step' = IF pc = "SetCurrent" THEN "current" ELSE "body"
    /\ UNCHANGED << pc, i, tracker, errors, stdout, render, snapshot, line >>
    /\ Untracked

\* tracker.go lines 53-55, one assignment at a time
SetCurrentIndex ==
    /\ pc = "SetCurrent" /\ step = "current"
    /\ tracker' = [tracker EXCEPT !.current = i]
    /\ step' = "fileName"
    /\ UNCHANGED << pc, i, errors, stdout, mu, render, snapshot, line >>
    /\ Untracked

SetCurrentName ==
    /\ pc = "SetCurrent" /\ step = "fileName"
    /\ tracker' = [tracker EXCEPT !.fileName = Base(arg)]
    /\ step' = "status"
    /\ UNCHANGED << pc, i, errors, stdout, mu, render, snapshot, line >>
    /\ Untracked

SetCurrentStatus ==
    /\ pc = "SetCurrent" /\ step = "status"
    /\ tracker' = [tracker EXCEPT !.status = "Processing..."]
    /\ step' = "unlock"
    /\ UNCHANGED << pc, i, errors, stdout, mu, render, snapshot, line >>
    /\ Untracked

\* the body of SetStatus (line 62), Complete (lines 69-70) and Error (lines 77-78)
Body ==
    /\ pc \in {"SetStatus", "Complete", "Error"} /\ step = "body"
    /\ tracker' = CASE pc = "SetStatus" -> SetStatus(tracker, "Transcribing...")
                     [] pc = "Complete" -> Complete(tracker, arg, outPath)
                     [] pc = "Error" -> Error(tracker, arg, "failed")
    /\ stdout' = CASE pc = "SetStatus" -> stdout
                    [] pc = "Complete" -> Append(stdout, printCompleted(arg, outPath))
                    [] pc = "Error" -> Append(stdout, printError(arg, "failed"))
    /\ step' = "unlock"
    /\ UNCHANGED << pc, i, errors, outPath, mu, render, snapshot, line >>
    /\ Untracked

\* the deferred t.mu.Unlock(), and the return to runExtract: after SetCurrent
\* comes Resolve, after SetStatus Transcribe, after Complete and Error the
\* next input or, past the last one, tracker.Stop()
Unlock ==
    /\ step = "unlock"
    /\ mu' = "free"
    /\ step' = "none"
    /\ pc' = CASE pc = "SetCurrent" -> "Resolve"
                [] pc = "SetStatus" -> "Transcribe"
                [] OTHER -> IF i < Len(args) THEN "SetCurrent" ELSE "Stop"
    /\ i' = IF pc \in {"Complete", "Error"} THEN i + 1 ELSE i
    /\ UNCHANGED << tracker, errors, stdout, render, snapshot, line >>
    /\ Untracked

\* Resolve (line 103), Transcribe (line 115) and MkdirAll with WriteFile
\* (lines 132-141) return, with or without an error
Blocked ==
    /\ pc \in Blocking
    /\ step = "none"
    /\ \E ok \in BOOLEAN :
         /\ pc' = IF ~ok THEN "Error"
                  ELSE CASE pc = "Resolve" -> "SetStatus"
                         [] pc = "Transcribe" -> "Write"
                         [] pc = "Write" -> "Complete"
         /\ errors' = IF ok THEN errors ELSE Append(errors, [input |-> arg, err |-> "failed"])
    /\ outPath' = IF pc = "Transcribe" THEN outputs[i] ELSE outPath
    /\ UNCHANGED << i, tracker, stdout, mu, step, render, snapshot, line >>
    /\ UNCHANGED << args, apiKey, envKey, outputFormat, outputDir, useYtDlp, res,
                    returned, exitCode, files, temps, nextTmp, env, resolveLog,
                    transcribeLog, cleanupLog, stages, transcript, content, outputs >>

\* tracker.Stop() of line 158
Stopped ==
    /\ pc = "Stop"
    /\ tracker' = TrackerStop(tracker)
    /\ stdout' = stdout \o StopOutput(tracker)
    /\ pc' = "Summary"
    /\ UNCHANGED << i, errors, mu, step, render, snapshot, line >>
    /\ Untracked

\* lines 160-171 and the deferred tracker.Stop()
Summarized ==
    /\ pc = "Summary"
    /\ stdout' = stdout \o SummaryLines \o StopOutput(tracker)
    /\ tracker' = TrackerStop(tracker)
    /\ returned' = IF Len(errors) > 0 THEN "some files failed to process" ELSE "nil"
    /\ pc' = "returned"
    /\ UNCHANGED << i, errors, mu, step, render, snapshot, line >>
    /\ UNCHANGED << args, apiKey, envKey, outputFormat, outputDir, useYtDlp, res, outPath,
                    exitCode, files, temps, nextTmp, env, resolveLog, transcribeLog,
                    cleanupLog, stages, transcript, content, outputs >>

\* what the actions of the render goroutine leave alone
Unrendered == UNCHANGED << pc, i, tracker, errors, stdout, step >> /\ Untracked

\* select, case <-t.done (lines 90-91): the channel is closed, render returns
renderDone ==
    /\ render = "select"
    /\ tracker.closed > 0
    /\ render' = "exited"
    /\ UNCHANGED << mu, snapshot, line >>
    /\ Unrendered

\* select, case <-ticker.C (line 92)
renderTick ==
    /\ render = "select"
    /\ render' = "lock"
    /\ UNCHANGED << mu, snapshot, line >>
    /\ Unrendered

\* t.mu.Lock() of line 93
renderLock ==
    /\ render = "lock"
    /\ mu = "free"
    /\ mu' = "render"
    /\ render' = "fileName"
    /\ UNCHANGED << snapshot, line >>
    /\ Unrendered

\* line 94: `if t.fileName != ""`, and the name of lines 96-99
renderName ==
    /\ render = "fileName"
    /\ snapshot' = [NoSnapshot EXCEPT !.fileName = truncate(tracker.fileName, 30)]
    /\ render' = IF tracker.fileName # <<>> THEN "current" ELSE "unlock"
    /\ UNCHANGED << mu, line >>
    /\ Unrendered

\* lines 101-107: the arguments of Sprintf, in their order
renderCurrent ==
    /\ render = "current"
    /\ snapshot' = [snapshot EXCEPT !.current = tracker.current]
    /\ render' = "status"
    /\ UNCHANGED << mu, line >>
    /\ Unrendered

renderStatus ==
    /\ render = "status"
    /\ snapshot' = [snapshot EXCEPT !.status = tracker.status]
    /\ render' = "print"
    /\ UNCHANGED << mu, line >>
    /\ Unrendered

\* tracker.Stop() of runExtract has returned
StopReturned == pc \in {"Summary", "returned"}

\* line 114; the line remembers whether Stop had returned when it was written
renderPrint ==
    /\ render = "print"
    /\ line' = [snapshot EXCEPT !.stopped = StopReturned]
    /\ render' = "unlock"
    /\ UNCHANGED << mu, snapshot >>
    /\ Unrendered

\* a tick that leaves the mutex locked
renderUnlockForgotten ==
    /\ render = "unlock"
    /\ render' = "select"
    /\ UNCHANGED << mu, snapshot, line >>
    /\ Unrendered

\* lines 116-117: t.mu.Unlock(), and back to the select (the spinner index
\* is local to the goroutine and left out)
renderUnlock ==
    /\ render = "unlock"
    /\ mu' = "free"
    /\ render' = "select"
    /\ UNCHANGED << snapshot, line >>
    /\ Unrendered

\* the steps of the orchestrator, and those of the render goroutine
Orchestrator ==
    \/ Call
    \/ Lock
    \/ SetCurrentIndex
    \/ SetCurrentName
    \/ SetCurrentStatus
    \/ Body
    \/ Unlock
    \/ Blocked
    \/ Stopped
    \/ Summarized

Renderer ==
    \/ renderDone
    \/ renderTick
    \/ renderLock
    \/ renderName
    \/ renderCurrent
    \/ renderStatus
    \/ renderPrint
    \/ renderUnlock

NextTracker == Orchestrator \/ Renderer

SpecTracker == InitTracker /\ [][NextTracker]_vars

\* The two threads under the scheduling the Go runtime gives them: each
\* thread that can take a step takes one (a blocking call of the orchestrator
\* returns), a thread that finds the mutex free again and again gets it
\* (sync.Mutex hands a starving waiter the lock), and a select that finds
\* done closed again and again takes that case (select chooses among the
\* ready cases at random).
SpecTrackerFair ==
    /\ InitTracker
    /\ [][NextTracker]_vars
    /\ WF_vars(Orchestrator)
    /\ WF_vars(Renderer)
    /\ SF_vars(Lock)
    /\ SF_vars(renderLock)
    /\ SF_vars(renderDone)

\* ------------------------------------------------------------ properties

\* the configuration passes the checks of lines 68-80
ConfigOK == Key # "" /\ ToLower(outputFormat) \in {<<"l","r","c">>, <<"s","r","t">>}

\* the batch loop has ended
LoopEnded == ConfigOK /\ pc \in {"summary", "returned", "exited"}

\* runExtract has returned after running the batch
BatchReturned == ConfigOK /\ pc \in {"returned", "exited"}

Count(q, x) == Cardinality({k \in 1..Len(q) : q[k] = x})

IsItemLine(l) == l.kind \in {"completed", "error"}
IsSummaryItem(l) == l.kind = "item"

\* the persistent per-input lines of the reporter, and the itemized failures
ItemLines == SelectSeq(stdout, IsItemLine)
SummaryItems == SelectSeq(stdout, IsSummaryItem)

\* C1: every non-nil cleanup returned by Resolve has been invoked exactly once
\* when the next input is started, and not at all while its input is in work
C1_CleanupExactlyOnce ==
    \A k \in 1..Len(resolveLog) :
        resolveLog[k].cleanup # Nil =>
            /\ Count(cleanupLog, resolveLog[k].cleanup.tmp) = (IF k < i THEN 1 ELSE 0)
            /\ k < i => resolveLog[k].cleanup.tmp \notin temps

\* a second input is being resolved after a first one, resolved into a
\* temporary artifact, failed downstream and had its cleanup run
C1_Witness ==
    /\ pc = "resolve"
    /\ i = 2
    /\ resolveLog[1].cleanup # Nil
    /\ Len(errors) = 1
    /\ cleanupLog = << resolveLog[1].cleanup.tmp >>

\* a successful Resolve returns a nil cleanup exactly for a local input, whose
\* path it returns unchanged, and a non-nil one when it created something
C2_CleanupIffTemporary ==
    /\ \A k \in 1..Len(resolveLog) :
          resolveLog[k].err = NoErr =>
              (resolveLog[k].cleanup = Nil <=> ~IsURL(resolveLog[k].input))
    /\ pc \in {"transcribe", "mkdir", "write"} =>
          /\ ~IsURL(arg) => res.path = LocalPath(arg)
          /\ res.ops # <<>> => res.cleanup # Nil /\ res.cleanup.tmp \in temps

\* the files supplied as local inputs
SuppliedFiles ==
    {Clean(args[k]) : k \in {j \in 1..Len(args) : ~IsURL(args[j])}} \cap DOMAIN UserFiles

\* C2 as stated: cleanup is nil exactly for local inputs, and no step deletes
\* or overwrites a file that was supplied as a local input
C2_Original ==
    /\ C2_CleanupIffTemporary
    /\ \A p \in SuppliedFiles : p \in DOMAIN files /\ files[p] = UserFiles[p]

\* C2 as amended: cleanup is nil exactly for local inputs, no step deletes a
\* file supplied as a local input, and no step overwrites a supplied file that
\* has a supported audio extension
C2_NeverDeleted ==
    /\ C2_CleanupIffTemporary
    /\ \A p \in SuppliedFiles :
          /\ p \in DOMAIN files
          /\ ToLower(Ext(p)) \in supportedExtensions => files[p] = UserFiles[p]

\* a batch with a local input and a downloaded one has run to its end, both
\* documents written and the download removed
C2_Witness ==
    /\ pc = "exited"
    /\ Len(args) = 2
    /\ \E k \in 1..2 : ~IsURL(args[k])
    /\ \E k \in 1..2 : IsURL(args[k])
    /\ Len(tracker.completed) = 2
    /\ Len(cleanupLog) = 1

\* C3: the inputs are passed to Resolve once each and in declared order, and
\* all of them once the loop has ended, whatever failed before
C3_EveryInputResolved ==
    /\ Len(resolveLog) <= Len(args)
    /\ \A k \in 1..Len(resolveLog) : resolveLog[k].input = args[k]
    /\ ConfigOK /\ pc \in {"transcribe", "mkdir", "write"} => Len(resolveLog) = i
    /\ ConfigOK /\ pc \in {"loop", "resolve"} => Len(resolveLog) = i - 1
    /\ LoopEnded => Len(resolveLog) = Len(args)

\* the first input failed and the second was resolved all the same
C3_Witness ==
    /\ pc = "exited"
    /\ Len(args) = 2
    /\ Len(resolveLog) = 2
    /\ Len(tracker.errors) >= 1
    /\ tracker.errors[1].input = args[1]
    /\ resolveLog[1].err = NoErr

\* the inputs whose persistent line is an error line, among the first k, in order
RECURSIVE FailedInputs(_)
FailedInputs(k) ==
    IF k = 0 THEN <<>>
    ELSE IF ItemLines[k].kind = "error" THEN Append(FailedInputs(k - 1), args[k])
    ELSE FailedInputs(k - 1)

\* C4: when the loop has ended there is one outcome per input, in input order:
\* the k-th persistent line of the reporter is about the k-th input, the
\* tracker holds a completion or an error for each, and the failure list, which
\* the summary prints as it is, names the failed inputs in input order
C4_OneOutcomePerInput ==
    LoopEnded =>
        /\ Len(tracker.completed) + Len(tracker.errors) = Len(args)
        /\ Len(ItemLines) = Len(args)
        /\ \A k \in 1..Len(ItemLines) : ItemLines[k].input = truncate(args[k], 30)
        /\ tracker.errors = errors
        /\ [k \in 1..Len(errors) |-> errors[k].input] = FailedInputs(Len(args))
        /\ BatchReturned /\ errors # <<>> =>
              [k \in 1..Len(SummaryItems) |-> SummaryItems[k].text] = errors

\* a batch of two with one failure and one completion has ended
C4_Witness ==
    /\ pc = "exited"
    /\ Len(args) = 2
    /\ args[1] # args[2]
    /\ Len(errors) = 1
    /\ Len(tracker.completed) = 1
    /\ Len(SummaryItems) = 1

\* C5: with a valid configuration runExtract returns an error, and the process
\* exits with status 1, exactly when an input failed, and every failed input
\* has its error line from the reporter and its entry in the itemized list
C5_ErrorIffSomeFailed ==
    BatchReturned =>
        /\ returned # "nil" <=> tracker.errors # <<>>
        /\ pc = "exited" => exitCode = (IF tracker.errors # <<>> THEN 1 ELSE 0)
        /\ \A k \in 1..Len(tracker.errors) :
              /\ \E n \in 1..Len(stdout) :
                    stdout[n] = printError(tracker.errors[k].input, tracker.errors[k].err)
              /\ \E n \in 1..Len(SummaryItems) :
                    SummaryItems[n].text = tracker.errors[k]
        /\ Len(tracker.errors) = Len(args) - Len(tracker.completed)

\* one input succeeded, one failed, and the process exited with status 1
C5_Witness ==
    /\ pc = "exited"
    /\ exitCode = 1
    /\ Len(tracker.completed) = 1
    /\ Len(tracker.errors) = 1

\* C6: without a credential or with a format other than lrc or srt nothing is
\* resolved, transcribed or written, the reporter is never started, and
\* runExtract returns an error
C6_BadConfigNoBatch ==
    ~ConfigOK =>
        /\ resolveLog = <<>>
        /\ transcribeLog = <<>>
        /\ files = UserFiles
        /\ temps = {}
        /\ tracker = NoTracker
        /\ stdout = <<>>
        /\ pc # "start" => returned \notin {"", "nil"}
        /\ pc = "exited" => exitCode = 1

\* a run with a key and the format txt has exited
C6_Witness ==
    /\ pc = "exited"
    /\ Key # ""
    /\ outputFormat = <<"t","x","t">>

\* C6, second case: a run without any key has exited
C6_WitnessNoKey == pc = "exited" /\ Key = ""

\* the Resolve under test went to the direct downloader
Direct == pc = "probed" /\ IsURL(arg) /\ ~(useYtDlp /\ isYouTubeURL(arg))

\* C7: when Resolve returns an error it returns no path and no cleanup, and
\* nothing it created is left: a failed copy removed the file it had created,
\* a failed or fruitless extraction removed its directory, and a missing tool
\* was noticed before anything was created
C7_FailedResolveLeavesNothing ==
    pc = "probed" /\ res.err # NoErr =>
        /\ res.cleanup = Nil
        /\ res.path = NoPath
        /\ temps = {}
        /\ res.err = "failed to save download" =>
              res.ops = << <<"CreateTemp", 1>>, <<"Remove", 1>> >>
        /\ res.err \in {"yt-dlp failed",
                        "yt-dlp download completed but no audio file found"} =>
              res.ops = << <<"MkdirTemp", 1>>, <<"RemoveAll", 1>> >>
        /\ res.err \in {"yt-dlp not found", "failed to create temp file",
                        "failed to create temp directory"} => res.ops = <<>>

\* a download whose copy failed has returned
C7_Witness ==
    /\ pc = "probed"
    /\ res.err = "failed to save download"
    /\ res.ops # <<>>
    /\ temps = {}

\* C7, the extractor: the tool exited with a failure
C7_WitnessTool == pc = "probed" /\ res.err = "yt-dlp failed" /\ temps = {}

\* the final response is a 200 that is not HTML, and the file can be written
GoodFinal ==
    /\ ~env.net.srv.transportErr
    /\ env.net.srv.status = StatusOK
    /\ ~HasPrefix(env.net.srv.contentType, <<"t","e","x","t","/","h","t","m","l">>)
    /\ env.net.createTempOK
    /\ env.net.copyOK

TooManyRedirects == "failed to download: too many redirects"

\* C8 as stated: a chain of exactly 10 redirects succeeds on a good final
\* response, a chain of 11 or more fails with the too-many-redirects error
C8_Original ==
    Direct =>
        /\ env.net.srv.hops = 10 /\ GoodFinal => res.err = NoErr
        /\ env.net.srv.hops >= 11 /\ ~env.net.srv.transportErr =>
              res.err = TooManyRedirects

\* C8 as amended: a chain of at most 9 redirects succeeds on a good final
\* response, a chain of 10 or more fails with the too-many-redirects error
C8_NineHopsFollowed ==
    Direct =>
        /\ env.net.srv.hops <= 9 /\ GoodFinal => res.err = NoErr
        /\ env.net.srv.hops >= 10 /\ ~env.net.srv.transportErr =>
              res.err = TooManyRedirects

\* a download through 9 redirects has succeeded
C8_Witness == Direct /\ env.net.srv.hops = 9 /\ GoodFinal /\ res.err = NoErr

\* a download through 10 redirects was refused
C8_WitnessRefused ==
    Direct /\ env.net.srv.hops = 10 /\ GoodFinal /\ res.err = TooManyRedirects

\* the extension of the temporary file a successful download made
TempExt == SubSeq(res.path.name, Len(TempFileName(<<>>)) + 1, Len(res.path.name))

\* the response of the download under test
ProbeResponse == Response(arg, env.net.srv)
ProbeType == StripParams(ProbeResponse.contentType)

\* the content type has an extension in the table
TypeMapped == \E e \in contentTypeMap : e[1] = ProbeType /\ e[2] # <<>>
TypeExts == {e[2] : e \in {m \in contentTypeMap : m[1] = ProbeType}}

\* the supported extensions ending the final URL's path or standing before "?"
ExtsBeforeQuery ==
    { e \in supportedExtensions :
        \/ HasSuffix(ToLower(ProbeResponse.urlPath), e)
        \/ Contains(ToLower(ProbeResponse.finalURL), e \o <<"?">>) }

\* those, and the ones standing before "&"
ExtsInURL ==
    ExtsBeforeQuery \cup
        { e \in supportedExtensions : Contains(ToLower(ProbeResponse.finalURL), e \o <<"&">>) }

FlacTokenURL == HasSuffix(ProbeResponse.finalURL, <<".","f","l","a","c","?","t","o","k","e","n","=","x">>)

\* C9 as stated: the table first; the URL only for octet-stream or no content
\* type, by the path's suffix or before the query; otherwise .mp3
C9_Original ==
    Direct /\ res.err = NoErr =>
        /\ IF TypeMapped THEN TempExt \in TypeExts
           ELSE IF ProbeType \in {<<"a","p","p","l","i","c","a","t","i","o","n","/","o","c","t","e","t","-","s","t","r","e","a","m">>, <<>>}
                   /\ ExtsBeforeQuery # {}
           THEN TempExt \in ExtsBeforeQuery
           ELSE TempExt = <<".","m","p","3">>
        /\ ProbeType = <<"a","u","d","i","o","/","m","p","e","g">> => TempExt = <<".","m","p","3">>
        /\ ProbeType = <<"a","p","p","l","i","c","a","t","i","o","n","/","o","c","t","e","t","-","s","t","r","e","a","m">> /\ FlacTokenURL => TempExt = <<".","f","l","a","c">>

\* C9 as amended: the table first; for every other content type a supported
\* extension that ends the final URL's path or stands before "?" or "&" in the
\* final URL; .mp3 when there is none
C9_ExtensionOrder ==
    Direct /\ res.err = NoErr =>
        /\ IF TypeMapped THEN TempExt \in TypeExts
           ELSE IF ExtsInURL # {} THEN TempExt \in ExtsInURL
           ELSE TempExt = <<".","m","p","3">>
        /\ ProbeType = <<"a","u","d","i","o","/","m","p","e","g">> => TempExt = <<".","m","p","3">>
        /\ ProbeType = <<"a","p","p","l","i","c","a","t","i","o","n","/","o","c","t","e","t","-","s","t","r","e","a","m">> /\ FlacTokenURL
              /\ ExtsInURL = {<<".","f","l","a","c">>} => TempExt = <<".","f","l","a","c">>

\* a content type outside the table took its extension from the URL
C9_Witness ==
    /\ Direct
    /\ res.err = NoErr
    /\ ProbeType = <<"a","u","d","i","o","/","x","-","a","i","f","f">>
    /\ TempExt = <<".","f","l","a","c">>

\* C9: octet-stream and a final URL ending in .flac?token=x gave .flac
C9_WitnessFlac ==
    /\ Direct
    /\ res.err = NoErr
    /\ ProbeType = <<"a","p","p","l","i","c","a","t","i","o","n","/","o","c","t","e","t","-","s","t","r","e","a","m">>
    /\ FlacTokenURL
    /\ TempExt = <<".","f","l","a","c">>

C10_WitnessStatus ==
    Direct /\ res.err = "download failed with status" /\ res.ops = <<>>

\* the strategy functions that ran for the Resolve under test
IsStrategy(c) == c \in {"resolveLocalFile", "downloadWithYtDlp", "downloadDirect"}
Strategies == SelectSeq(res.calls, IsStrategy)

\* the functions of os/exec that ran for the Resolve under test
IsExternal(c) == c \in {"exec.LookPath", "exec.Command"}
Externals == SelectSeq(res.calls, IsExternal)

\* the input begins with a scheme prefix; it names a hosting site
SchemePrefixed == HasPrefix(arg, <<"h","t","t","p",":","/","/">>) \/ HasPrefix(arg, <<"h","t","t","p","s",":","/","/">>)
HostedVideo ==
    \E p \in { <<"y","o","u","t","u","b","e",".","c","o","m","/","w","a","t","c","h">>, <<"y","o","u","t","u",".","b","e","/">>, <<"y","o","u","t","u","b","e",".","c","o","m","/","s","h","o","r","t","s","/">>,
               <<"y","o","u","t","u","b","e",".","c","o","m","/","l","i","v","e","/">>, <<"m","u","s","i","c",".","y","o","u","t","u","b","e",".","c","o","m","/","w","a","t","c","h">> } : Contains(arg, p)

\* C11: Resolve hands every input to exactly one strategy: the local resolver
\* iff the input has no http:// or https:// prefix, the video extractor iff it
\* has one, --yt-dlp is set and the URL contains a hosting-site pattern, the
\* direct downloader otherwise; without --yt-dlp neither exec.LookPath nor
\* exec.Command runs
C11_OneStrategy ==
    pc = "probed" =>
        /\ Len(Strategies) = 1
        /\ Strategies[1] = "resolveLocalFile" <=> ~SchemePrefixed
        /\ Strategies[1] = "downloadWithYtDlp" <=>
              SchemePrefixed /\ useYtDlp /\ HostedVideo
        /\ Strategies[1] = "downloadDirect" <=>
              SchemePrefixed /\ ~(useYtDlp /\ HostedVideo)
        /\ ~useYtDlp => Externals = <<>>
        /\ Strategies[1] # "downloadWithYtDlp" => Externals = <<>>

\* a hosting-site URL went to the direct downloader because --yt-dlp is not set
C11_Witness ==
    /\ pc = "probed"
    /\ arg = InYt
    /\ ~useYtDlp
    /\ Strategies = <<"downloadDirect">>

\* C11, the extractor: with --yt-dlp a URL naming a hosting site in its query
\* went to the extractor, which looked the tool up and ran it
C11_WitnessExtractor ==
    /\ pc = "probed"
    /\ arg = InYtQuery
    /\ useYtDlp
    /\ Strategies = <<"downloadWithYtDlp">>
    /\ Externals = <<"exec.LookPath", "exec.Command">>

\* what the file system holds at the path of the local input under test
OnDisk ==
    IF Clean(arg) \in DOMAIN files THEN files[Clean(arg)].kind ELSE "notexist"
ExtSupported == ToLower(Ext(arg)) \in supportedExtensions

\* C12: for a local input the resolver fails with not-found when the path does
\* not exist, with an access error when it cannot be inspected, with
\* invalid-input when it is a directory whatever its extension, with
\* unsupported-format when it is a file whose lower-cased extension is not
\* supported, and otherwise returns the path unchanged with no cleanup; every
\* path gets exactly one of these outcomes
C12_LocalOutcome ==
    pc = "probed" /\ ~SchemePrefixed =>
        /\ res.err \in {"file not found", "failed to access file",
                        "path is a directory", "unsupported audio format", NoErr}
        /\ res.err = "file not found" <=> OnDisk = "notexist"
        /\ res.err = "failed to access file" <=> OnDisk = "noaccess"
        /\ res.err = "path is a directory" <=> OnDisk = "dir"
        /\ res.err = "unsupported audio format" <=> OnDisk = "file" /\ ~ExtSupported
        /\ res.err = NoErr <=> OnDisk = "file" /\ ExtSupported
        /\ res.err = NoErr => res.path = LocalPath(arg) /\ res.cleanup = Nil
        /\ res.err # NoErr => res.path = NoPath /\ res.cleanup = Nil
        /\ res.ops = <<>>

\* a directory whose name has no supported extension was refused as a directory
C12_Witness ==
    /\ pc = "probed"
    /\ arg = InDir
    /\ OnDisk = "dir"
    /\ ~ExtSupported
    /\ res.err = "path is a directory"

\* C12, success: a path that is not in its cleaned form came back unchanged
C12_WitnessUnchanged ==
    /\ pc = "probed"
    /\ arg = InDotted
    /\ Clean(arg) # arg
    /\ res.err = NoErr
    /\ res.path = LocalPath(InDotted)

\* C12, the other failures: an unreadable path, a directory named like an audio
\* file, an upper-case supported extension
C12_WitnessAccess == pc = "probed" /\ res.err = "failed to access file"
C12_WitnessAudioDir ==
    pc = "probed" /\ arg = InMp3 /\ ExtSupported /\ res.err = "path is a directory"
C12_WitnessUpperExt == pc = "probed" /\ arg = InWav /\ res.err = NoErr

\* the output documents that exist, and the inputs whose document is intact
Documents == {p \in DOMAIN files : files[p].data.owner = "document"}
IntactInputs == {files[p].data.of : p \in Documents}

\* C13: when the loop has ended the number of distinct output documents equals
\* the number of inputs that succeeded: no document of a successful input was
\* overwritten by the document of another input of the batch
C13_OneDocumentPerInput ==
    LoopEnded =>
        /\ Cardinality(Documents) = Len(tracker.completed)
        /\ Cardinality(IntactInputs) = Len(tracker.completed)

\* the last element of the input with its final extension removed
RawName == TrimSuffix(Base(arg), Ext(Base(arg)))

\* the characters a file name must not contain, and a name with each replaced
InvalidSet == {"/", "\\", ":", "*", "?", "\"", "<", ">", "|"}
Underscored(n) == [k \in 1..Len(n) |-> IF n[k] \in InvalidSet THEN "_" ELSE n[k]]

\* the directory and the base name of the document getOutputPath named
DocDir == Dir(outPath)
DocName == TrimSuffix(Base(outPath), <<".">> \o outputFormat)

\* the directory the document belongs in
WantedDir ==
    IF outputDir # <<>> THEN Clean(outputDir)
    ELSE IF SchemePrefixed THEN <<".">>
    ELSE Dir(arg)

\* C14 as stated: the document is named <base>.<format>, base being the last
\* path element of the input with its final extension removed, in the output
\* directory when one is configured, else beside a local input, else in the
\* working directory
C14_Original ==
    pc = "named" =>
        /\ Base(outPath) = RawName \o <<".">> \o outputFormat
        /\ DocDir = WantedDir

\* C14: the document is named <base>.<format>; for a local input base is the
\* last path element with its final extension removed, for a URL input it is
\* that name with every invalid character replaced by an underscore, or
\* "output" when the name is empty; the directory is the output directory when
\* one is configured, else the directory of a local input, else "."
C14_OutputName ==
    pc = "named" =>
        /\ ~SchemePrefixed => Base(outPath) = RawName \o <<".">> \o outputFormat
        /\ SchemePrefixed /\ RawName # <<>> =>
              Base(outPath) = Underscored(RawName) \o <<".">> \o outputFormat
        /\ SchemePrefixed /\ RawName = <<>> =>
              Base(outPath) = <<"o","u","t","p","u","t",".">> \o outputFormat
        /\ DocDir = WantedDir

\* a local input in a directory, no output directory: the document is beside it
C14_Witness ==
    /\ pc = "named"
    /\ arg = InWav
    /\ outputDir = <<>>
    /\ outPath = <<"d","/","b",".","l","r","c">>

\* C14, a URL: a watch page is named after its sanitized last element
C14_WitnessURL ==
    /\ pc = "named"
    /\ arg = <<"h","t","t","p","s",":","/","/","y","o","u","t","u","b","e",".","c","o","m","/","w","a","t","c","h","?","v","=","a">>
    /\ outputDir = <<"o","u","t","/">>
    /\ outPath = <<"o","u","t","/","w","a","t","c","h","_","v","=","a",".","l","r","c">>

\* C15: for a URL input the base name of the document contains none of the
\* characters / \ : * ? " < > |, is the URL-derived name with each of them
\* replaced by one underscore (same length, other characters unchanged), is
\* "output" when that name is empty, and sanitizing it again changes nothing
C15_Sanitized ==
    pc = "named" /\ SchemePrefixed =>
        /\ \A k \in 1..Len(DocName) : DocName[k] \notin InvalidSet
        /\ RawName # <<>> =>
              /\ Len(DocName) = Len(RawName)
              /\ \A k \in 1..Len(RawName) :
                    DocName[k] = IF RawName[k] \in InvalidSet THEN "_" ELSE RawName[k]
        /\ RawName = <<>> => DocName = <<"o","u","t","p","u","t">>
        /\ sanitizeFilename(DocName) = DocName
        /\ sanitizeFilename(sanitizeFilename(RawName)) = sanitizeFilename(RawName)

\* a URL whose last element holds several invalid characters was named
C15_Witness ==
    /\ pc = "named"
    /\ arg = <<"h","t","t","p","s",":","/","/","h","/","q","\"","<",">","|","\\","z",".","m","p","3">>
    /\ DocName = <<"q","_","_","_","_","_","z">>

\* C15, the fallback: a URL whose last element is only an extension
C15_WitnessOutput ==
    /\ pc = "named"
    /\ arg = <<"h","t","t","p","s",":","/","/","h","/",".","m","p","3">>
    /\ DocName = <<"o","u","t","p","u","t">>

\* the count lines of the summary: "Successfully processed n" and "Completed
\* with n error(s)"
IsSucceededLine(l) == l.kind = "succeeded"
IsFailedLine(l) == l.kind = "failed"
SucceededLines == SelectSeq(stdout, IsSucceededLine)
FailedLines == SelectSeq(stdout, IsFailedLine)

\* the inputs that succeeded and failed, counted from the reporter's lines
Successes == Cardinality({k \in 1..Len(ItemLines) : ItemLines[k].kind = "completed"})
Failures == Cardinality({k \in 1..Len(ItemLines) : ItemLines[k].kind = "error"})

\* C16 as stated: after the batch the summary states the number of inputs that
\* succeeded, whether or not some failed, and lists every failure
C16_Original ==
    BatchReturned =>
        /\ Len(SucceededLines) = 1
        /\ SucceededLines[1].n = Successes
        /\ Len(SummaryItems) = Failures

\* C16: after the batch the summary states the number of inputs only when
\* none failed, which then is the number that succeeded; when some failed it
\* states the number of failures instead, with no count of successes, and
\* lists every failure, one entry per failed input in input order
C16_SummaryCounts ==
    BatchReturned =>
        /\ Successes + Failures = Len(args)
        /\ Failures = 0 =>
              /\ SucceededLines = << [kind |-> "succeeded", n |-> Successes] >>
              /\ FailedLines = <<>>
              /\ SummaryItems = <<>>
        /\ Failures > 0 =>
              /\ SucceededLines = <<>>
              /\ FailedLines = << [kind |-> "failed", n |-> Failures] >>
              /\ Len(SummaryItems) = Failures
              /\ [k \in 1..Failures |-> SummaryItems[k].text.input]
                    = FailedInputs(Len(args))

\* a batch of two in which the first input succeeded and the second failed has
\* printed its summary
C16_Witness ==
    /\ pc = "returned"
    /\ Len(ItemLines) = 2
    /\ ItemLines[1].kind = "completed"
    /\ ItemLines[2].kind = "error"
    /\ FailedLines = << [kind |-> "failed", n |-> 1] >>
    /\ Len(SummaryItems) = 1

\* C16, no failure: a batch of two that succeeded has printed its summary
C16_WitnessAllGood ==
    /\ pc = "returned"
    /\ Successes = 2
    /\ SucceededLines = << [kind |-> "succeeded", n |-> 2] >>

\* the fields of s between the separators c
RECURSIVE Fields(_, _)
Fields(s, c) ==
    LET k == Index(s, c)
    IN  IF k = 0 THEN <<s>>
        ELSE <<SubSeq(s, 1, k - 1)>> \o Fields(SubSeq(s, k + 1, Len(s)), c)

\* a decimal numeral and its value
IsNumeral(s) == s # <<>> /\ \A k \in 1..Len(s) : s[k] \in {Digits[d] : d \in 1..10}
DigitValue(c) == CHOOSE d \in 0..9 : Digits[d + 1] = c
RECURSIVE Value(_)
Value(s) ==
    IF s = <<>> THEN 0 ELSE 10 * Value(SubSeq(s, 1, Len(s) - 1)) + DigitValue(s[Len(s)])

\* ts reads mm:ss.cc (mm of two digits or more) and denotes ms cut to centiseconds
ReadsLRCTime(ts, ms) ==
    LET f == Fields(ts, ":")
        g == Fields(f[2], ".")
    IN  /\ Len(f) = 2 /\ Len(g) = 2
        /\ IsNumeral(f[1]) /\ IsNumeral(g[1]) /\ IsNumeral(g[2])
        /\ Len(f[1]) >= 2 /\ Len(g[1]) = 2 /\ Len(g[2]) = 2
        /\ Value(g[1]) < 60
        /\ 60000 * Value(f[1]) + 1000 * Value(g[1]) + 10 * Value(g[2]) = ms - (ms % 10)

\* ts reads hh:mm:ss,mmm (hh of two digits or more) and denotes ms
ReadsSRTTime(ts, ms) ==
    LET f == Fields(ts, ":")
        g == Fields(f[3], ",")
    IN  /\ Len(f) = 3 /\ Len(g) = 2
        /\ IsNumeral(f[1]) /\ IsNumeral(f[2]) /\ IsNumeral(g[1]) /\ IsNumeral(g[2])
        /\ Len(f[1]) >= 2 /\ Len(f[2]) = 2 /\ Len(g[1]) = 2 /\ Len(g[2]) = 3
        /\ Value(f[2]) < 60 /\ Value(g[1]) < 60
        /\ 3600000 * Value(f[1]) + 60000 * Value(f[2]) + 1000 * Value(g[1]) + Value(g[2])
              = ms

\* the lines of the rendered document (the last one is what follows the final
\* line break) and the segments it was rendered from
ContentLines == Fields(content, "\n")
Segs == transcript.segments
HeaderLines ==
    IF transcript.language = <<>> THEN << <<"[","r","e",":","w","h","i","s","p","e","r","-","l","r","c","]">>, <<>> >>
    ELSE << <<"[","r","e",":","w","h","i","s","p","e","r","-","l","r","c","]">>, <<"[","l","a",":">> \o transcript.language \o <<"]">>, <<>> >>

\* the k-th line after the header is [mm:ss.cc] of the k-th start, then its text
IsLRCLine(l, seg) ==
    LET close == Index(l, "]")
    IN  /\ l # <<>> /\ l[1] = "[" /\ close > 2
        /\ ReadsLRCTime(SubSeq(l, 2, close - 1), seg.start)
        /\ SubSeq(l, close + 1, Len(l)) = TrimSpace(seg.text)

\* the four lines from L[at] on are block k of seg
IsSRTBlock(L, at, k, seg) ==
    LET t == L[at + 1]
        arrow == Index(t, " ")
    IN  /\ IsNumeral(L[at]) /\ L[at][1] # "0" /\ Value(L[at]) = k
        /\ arrow > 1
        /\ ReadsSRTTime(SubSeq(t, 1, arrow - 1), seg.start)
        /\ SubSeq(t, arrow, arrow + 4) = <<" ","-","-",">"," ">>
        /\ ReadsSRTTime(SubSeq(t, arrow + 5, Len(t)), seg.end)
        /\ L[at + 2] = TrimSpace(seg.text)
        /\ L[at + 3] = <<>>

C17_WitnessSRT ==
    /\ pc = "formatted"
    /\ outputFormat = <<"s","r","t">>
    /\ transcript = TranscriptionResult(<<>>, << Segment(0, 999, <<" ","l","a"," ">>),
                         Segment(6000007, 360000000, <<"\t","[","l","a","]"," ","-","-",">"," ","1","\n">>) >>)
    /\ content = <<"1","\n","0","0",":","0","0",":","0","0",",","0","0","0"," ","-","-",">"," ","0","0",":","0","0",":","0","0",",","9","9","9","\n","l","a","\n","\n">>
                   \o <<"2","\n","0","1",":","4","0",":","0","0",",","0","0","7"," ","-","-",">"," ","1","0","0",":","0","0",":","0","0",",","0","0","0","\n","[","l","a","]"," ","-","-",">"," ","1","\n","\n">>

\* C17, no segment: the header alone, and the empty document
C17_WitnessEmptyLRC ==
    /\ pc = "formatted"
    /\ outputFormat = <<"l","r","c">>
    /\ transcript = NoTranscript
    /\ content = <<"[","r","e",":","w","h","i","s","p","e","r","-","l","r","c","]","\n","\n">>
C17_WitnessEmptySRT ==
    pc = "formatted" /\ outputFormat = <<"s","r","t">> /\ Segs = <<>> /\ content = <<>>

\* the place of a stage in the loop body; the recorded outcome comes last
Rank(e) ==
    CASE e.stage = "resolve" -> 1
      [] e.stage = "transcribe" -> 2
      [] e.stage = "format" -> 3
      [] e.stage = "write" -> 4
      [] e.stage = "cleanup" -> 5
      [] OTHER -> 6

\* stage name of input n ran with outcome ok before position a of the history
Before(a, name, n, ok) == \E b \in 1..(a - 1) : stages[b] = Stage(name, n, ok)

\* C18: the stages of one input run in the order resolve, transcribe, format,
\* write, cleanup, then the recorded outcome, each at most once; an input is
\* transcribed only after its resolve succeeded, written only after its
\* transcription succeeded, reported complete only after its write succeeded;
\* the stages of the next input start only after the cleanup of the current one
\* has run and its outcome is recorded, so inputs never overlap
C18_StageOrder ==
    /\ \A a, b \in 1..Len(stages) :
          a < b =>
              /\ stages[a].input <= stages[b].input
              /\ stages[a].input = stages[b].input => Rank(stages[a]) < Rank(stages[b])
    /\ \A a \in 1..Len(stages) :
          LET e == stages[a]
          IN  /\ e.stage = "transcribe" => Before(a, "resolve", e.input, TRUE)
              /\ e.stage = "format" => Before(a, "transcribe", e.input, TRUE)
              /\ e.stage = "write" => Before(a, "format", e.input, TRUE)
              /\ e.stage = "complete" => Before(a, "write", e.input, TRUE)
              /\ e.stage = "resolve" /\ e.input > 1 =>
                    /\ stages[a - 1].input = e.input - 1
                    /\ stages[a - 1].stage \in {"complete", "error"}
                    /\ resolveLog[e.input - 1].cleanup # Nil =>
                          Before(a, "cleanup", e.input - 1, TRUE)
    /\ stages # <<>> => stages[1].input = 1 /\ stages[1].stage = "resolve"

\* the first input went through every stage, a cleanup included, and the
\* second one failed at its write
C18_Witness ==
    /\ LoopEnded
    /\ Len(args) = 2
    /\ \E a \in 1..Len(stages) : stages[a] = Stage("cleanup", 1, TRUE)
    /\ \E a \in 1..Len(stages) : stages[a] = Stage("complete", 1, TRUE)
    /\ \E a \in 1..Len(stages) : stages[a] = Stage("write", 2, FALSE)

\* the orchestrator is at an assignment to current, fileName, status,
\* completed or errors; the render goroutine is at a read of one of them
Writing == step \in {"current", "fileName", "status", "body"}
Reading == render \in {"fileName", "current", "status"}

\* the fields of a progress line belong together: the name is the one of
\* the input the index counts, and the status is one a call has set
Whole(s) ==
    /\ s.current \in 1..Len(args)
    /\ s.fileName = truncate(Base(args[s.current]), 30)
    /\ s.status \in {"Processing...", "Transcribing..."}

\* C19: every read or write of current, fileName, status, completed and
\* errors happens while its thread holds the Tracker mutex, so no render
\* tick reads the fields while a SetCurrent (or any other method) is half
\* applied and every progress line printed is whole; the orchestrator does
\* not hold the mutex while Resolve, Transcribe or the output write runs.
C19_MutexDiscipline ==
    /\ Writing => mu = "main"
    /\ Reading => mu = "render"
    /\ Reading => step \in {"none", "lock"}
    /\ render = "print" => Whole(snapshot)
    /\ line # NoSnapshot => Whole(line)
    /\ pc \in Blocking => mu # "main" /\ step = "none"

\* a render tick reads the fields of the first input while the orchestrator
\* waits for the mutex in SetCurrent of the second
C19_Witness ==
    /\ render = "current"
    /\ mu = "render"
    /\ pc = "SetCurrent" /\ step = "lock" /\ i = 2
    /\ tracker.current = 1

\* a render tick waits for the mutex while SetCurrent of the second input
\* has assigned the index and not yet the name
C19_WitnessWriter ==
    /\ render = "lock"
    /\ mu = "main"
    /\ pc = "SetCurrent" /\ step = "fileName"
    /\ tracker.current = 2 /\ tracker.fileName = Base(args[1])

\* a render tick runs while Transcribe is in flight, and prints its line
C19_WitnessBlocking ==
    /\ pc = "Transcribe"
    /\ render = "unlock"
    /\ mu = "render"
    /\ line.status = "Transcribing..."

\* both threads are through: runExtract has returned, render has returned
Quiet == pc = "returned" /\ render = "exited"

\* C20: no state short of the end is a deadlock, each render tick releases
\* the mutex it took, every call of SetCurrent, SetStatus, Complete or Error
\* returns, the batch loop runs to the return of runExtract, and once Stop
\* has closed done the render goroutine exits.
C20_Liveness ==
    /\ [](Quiet \/ ENABLED NextTracker)
    /\ (mu = "render") ~> (mu # "render")
    /\ (step # "none") ~> (step = "none")
    /\ <>(pc = "returned")
    /\ (tracker.closed > 0) ~> (render = "exited")

\* the longest batch is through and both threads have ended
C20_Witness ==
    /\ Quiet
    /\ mu = "free"
    /\ Len(args) = MaxInputs
    /\ Len(tracker.completed) + Len(tracker.errors) = Len(args)

\* Complete waits for the mutex a render tick holds
C20_WitnessContended ==
    /\ pc = "Complete" /\ step = "lock"
    /\ mu = "render"

\* done is closed while a render tick is under way
C20_WitnessStopped ==
    /\ tracker.closed > 0
    /\ render = "print"

\* C21: once Tracker.Stop has returned the render goroutine writes no
\* further status line, however Stop and a render tick interleave.
C21_NoRenderAfterStop == ~line.stopped

\* the line-clearing writes of Stop
IsClearLine(l) == l.kind = "clear"
ClearLines == SelectSeq(stdout, IsClearLine)

\* runExtract is past the explicit tracker.Stop() of line 158
PastStop == pc \in {"summary", "returned", "exited"}

\* C22: once the tracker is started, Start has been called exactly once on
\* every path; done is closed exactly once, by the Stop after the loop, and
\* the deferred second Stop finds the tracker not started: it closes
\* nothing and clears nothing.
C22_StartOnceCloseOnce ==
    tracker # NoTracker =>
        /\ tracker.spawned = 1
        /\ tracker.closed = (IF PastStop THEN 1 ELSE 0)
        /\ tracker.started <=> ~PastStop
        /\ Len(ClearLines) = tracker.closed

\* runExtract has returned from a batch with a failed and a completed input,
\* both calls of Stop made
C22_Witness ==
    /\ pc = "returned"
    /\ Len(tracker.errors) > 0
    /\ Len(tracker.completed) > 0
    /\ tracker.closed = 1
    /\ ~tracker.started

\* the batch loop is over
LoopDone == (pc = "loop" /\ i > Len(args)) \/ PastStop

\* the stage at position k of the history is preceded by the return of
\* Transcribe for the same input
AfterTranscribe(k) ==
    \E j \in 1..(k - 1) :
        stages[j].stage = "transcribe" /\ stages[j].input = stages[k].input

\* C23: while Transcribe runs on a temporary artifact the artifact exists
\* and its cleanup has not been invoked; a cleanup is only ever invoked
\* after Transcribe has returned for that input; at most one temporary
\* artifact of the run exists at any point, and none once the loop is over.
C23_TempLifetime ==
    /\ pc = "transcribe" /\ res.cleanup # Nil =>
          /\ res.path.tmp = res.cleanup.tmp
          /\ res.cleanup.tmp \in temps
          /\ Count(cleanupLog, res.cleanup.tmp) = 0
    /\ \A k \in 1..Len(stages) : stages[k].stage = "cleanup" => AfterTranscribe(k)
    /\ Len(cleanupLog) = Count([k \in 1..Len(stages) |-> stages[k].stage], "cleanup")
    /\ Cardinality(temps) <= 1
    /\ LoopDone => temps = {}

\* the second input's download is being transcribed, the first input's
\* artifact is gone
C23_Witness ==
    /\ pc = "transcribe"
    /\ i = 2
    /\ res.cleanup # Nil
    /\ Len(cleanupLog) = 1
    /\ temps = {res.cleanup.tmp}

\* the loop is over after two downloads, both removed
C23_WitnessDone ==
    /\ LoopDone
    /\ Len(cleanupLog) = 2
    /\ temps = {}

\* what getAudioExtension returns for the response of the download under
\* test when the supported-extension map is walked in the given order
SecondCall(order) == getAudioExtension(ProbeResponse, order)

\* C24: a second call of getAudioExtension on the same response returns the
\* extension the first call returned, whatever the order in which either
\* call walks the supported-extension map.
C24_Deterministic ==
    Direct /\ res.err = NoErr =>
        \A order \in IterationOrders : SecondCall(order) = TempExt
====
